---- MODULE Spec2Model ----
(***************************************************************************)
(* pg-tenant-setup: the provisioning and teardown orchestrator of          *)
(* src/pg/pg.go with the helpers of src/unnamed/part_002, run against a    *)
(* small model of the PostgreSQL cluster it talks to.                      *)
(*                                                                         *)
(* One behaviour is one process: Connect (possibly called several times),  *)
(* then one command (create-database = NewTenantDB, create-schema =        *)
(* NewTenantSchema), one action per statement the command executes.        *)
(***************************************************************************)
EXTENDS Integers, Sequences, FiniteSets, TLC

VARIABLES
    env,        \* the environment variables read with os.Getenv
    args,       \* the command and its arguments
    db,         \* the cluster: roles, memberships, grants, ownership
    audit,      \* lines of the file named by PG_TENANT_SETUP_OUTPUT_SQL_FILE
    credsFile,  \* content of PG_TENANT_SETUP_OUTPUT_CREDENTIALS_FILE
    stderr,     \* what was printed on os.Stderr
    execLog,    \* history: every statement handed to Exec by RunExec
    once,       \* pgOnce
    pgInstance, \* the package variable pgInstance
    pools,      \* history: number of root pools opened by pgxpool.New
    callers,    \* the calls of Connect: position and returned values
    pc,         \* position of the command in its code
    k,          \* continuation: where to go on when a teardown returns
    dq,         \* roles still to be dropped by the running teardown
    i,          \* loop index (group, grant or user being handled)
    err,        \* the named result err of the running command
    halted,     \* os.Exit(1) was called by RunExec
    pool,       \* the scoped pool of ConnectDB
    tenantUsers,\* the SchemaUsers built by NewTenantSchemaUsers
    nextPw,     \* number of passwords drawn from the entropy source so far
    budget,     \* faults the environment may still inject
    runs,       \* commands completed against this cluster
    snap,       \* history: the cluster as the previous command left it
    gen,        \* a call of GenerateRandomPassword followed byte by byte
    other,      \* a second process of the command, while it is not running
    raced       \* history: the two processes ran their commands overlapping

vars == <<env, args, db, audit, credsFile, stderr, execLog, once, pgInstance,
          pools, callers, pc, k, dq, i, err, halted, pool, tenantUsers,
          nextPw, budget, runs, snap, gen, other, raced>>

connVars == <<once, pgInstance, pools, callers>>
runVars  == <<pc, k, dq, i, err, pool, tenantUsers, nextPw>>

----------------------------------------------------------------------------
(* Bounds of the model *)

\* faults (failing statements, probes, connections, writes) the environment
\* injects in one behaviour, beside the failures the cluster's state causes
MaxFaults == 1
\* calls of Connect in one process
MaxConnects == 2
\* commands run in succession against the same cluster
MaxRuns == 2
\* largest Length asked of GenerateRandomPassword (0 asks for defaultLength)
MaxLength == 2

----------------------------------------------------------------------------
(* types.go: constants *)

ownerSuffix       == "_owner"
schemaAdminSuffix == "_schadm"
roSuffix          == "_ro"
\* a read-write suffix that is the read-only one
rwSuffix_SameAsRo == "_ro"
rwSuffix          == "_rw"
groupSuffix       == "_grp"
userSuffix        == "_usr"

NoRole == ""
NoErr  == ""

\* the role the operator connects as (SELECT current_role in Connect)
Operator == "postgres"

----------------------------------------------------------------------------
(* part_002: the identity deriver *)

tenantOwnerName(roleNamePrefix) == roleNamePrefix \o ownerSuffix

\* a prefix that runs the two parts together
tenantSchemaPrefix_NoSeparator(roleNamePrefix, schemaName) ==
    roleNamePrefix \o schemaName

tenantSchemaPrefix(roleNamePrefix, schemaName) ==
    roleNamePrefix \o "_" \o schemaName

tenantSchemaGroupNames(roleNamePrefix, schemaName) ==
    LET prefix == tenantSchemaPrefix(roleNamePrefix, schemaName) IN
    [ Admin     |-> prefix \o schemaAdminSuffix \o groupSuffix,
      ReadWrite |-> prefix \o rwSuffix \o groupSuffix,
      ReadOnly  |-> prefix \o roSuffix \o groupSuffix ]

\* types.go: a SchemaGroups literal written without field names fills the
\* fields in the order of their declaration
SchemaGroups(first, second, third) ==
    [ Admin |-> first, ReadWrite |-> second, ReadOnly |-> third ]

\* helpers.go: the deriver of the group names as that file has it
helpers_tenantSchemaGroupNames(dbName, schemaName) ==
    LET prefix    == tenantSchemaPrefix(dbName, schemaName)
        Admin     == prefix \o schemaAdminSuffix \o groupSuffix
        ReadWrite == prefix \o rwSuffix \o groupSuffix
        ReadOnly  == prefix \o roSuffix \o groupSuffix
    IN SchemaGroups(Admin, ReadOnly, ReadWrite)

\* A password is the index of its draw from crypto/rand: two draws never give
\* the same 32 characters.  The empty string, which GenerateRandomPassword
\* returns next to its error, is 0.
EmptyPassword == 0

\* draw is the index of the draw; fails: rand.Int returned an error
GenerateRandomPassword(draw, fails) == IF fails THEN EmptyPassword ELSE draw

\* credentials whose passwords are the same at every call
newTenantSchemaUserCredentials_SamePasswords(roleNamePrefix, schemaName, n, noEntropy) ==
    [ Admin     |-> [ Username |-> tenantSchemaPrefix(roleNamePrefix, schemaName)
                                     \o schemaAdminSuffix \o userSuffix,
                      Password |-> 101 ],
      ReadWrite |-> [ Username |-> tenantSchemaPrefix(roleNamePrefix, schemaName)
                                     \o rwSuffix \o userSuffix,
                      Password |-> 102 ],
      ReadOnly  |-> [ Username |-> tenantSchemaPrefix(roleNamePrefix, schemaName)
                                     \o roSuffix \o userSuffix,
                      Password |-> 103 ] ]

\* n is the number of draws made before the call, noEntropy the tiers whose
\* draw fails.  The error of GenerateRandomPassword is assigned to _.
newTenantSchemaUserCredentials(roleNamePrefix, schemaName, n, noEntropy) ==
    LET prefix == tenantSchemaPrefix(roleNamePrefix, schemaName) IN
    [ Admin     |-> [ Username |-> prefix \o schemaAdminSuffix \o userSuffix,
                      Password |->
                        GenerateRandomPassword(n + 1, "Admin" \in noEntropy) ],
      ReadWrite |-> [ Username |-> prefix \o rwSuffix \o userSuffix,
                      Password |->
                        GenerateRandomPassword(n + 2, "ReadWrite" \in noEntropy) ],
      ReadOnly  |-> [ Username |-> prefix \o roSuffix \o userSuffix,
                      Password |->
                        GenerateRandomPassword(n + 3, "ReadOnly" \in noEntropy) ] ]

(* part_002: GenerateRandomPassword.  A string is the sequence of its      *)
(* characters, each a string of length one.                                *)

letters ==
    << "a", "b", "c", "d", "e", "f", "g", "h", "i", "j", "k", "l", "m",
       "n", "o", "p", "q", "r", "s", "t", "u", "v", "w", "x", "y", "z",
       "A", "B", "C", "D", "E", "F", "G", "H", "I", "J", "K", "L", "M",
       "N", "O", "P", "Q", "R", "S", "T", "U", "V", "W", "X", "Y", "Z" >>

numbers == << "0", "1", "2", "3", "4", "5", "6", "7", "8", "9" >>

\* the last character of specialChars is the grave accent, written by its
\* name: a TLA+ string cannot hold it
specialChars ==
    << "!", "#", "$", "%", "^", "&", "*", "(", ")", "-", "_", "=", "+", "[",
       "]", "{", "}", "|", ";", ":", ",", ".", "<", ">", "?", "~", "grave" >>

defaultLength == 32

PasswordConfig(Length, UseLetters, UseSpecial, UseNum, ExcludeSpecial) ==
    [ Length |-> Length, UseLetters |-> UseLetters, UseSpecial |-> UseSpecial,
      UseNum |-> UseNum, ExcludeSpecial |-> ExcludeSpecial ]

\* strings.ReplaceAll(charset, string(char), "")
ReplaceAll(charset, char) == SelectSeq(charset, LAMBDA c : c # char)

\* for _, char := range config.ExcludeSpecial { charset = ReplaceAll(...) }
RECURSIVE ExcludeAll(_, _)
ExcludeAll(charset, exclude) ==
    IF exclude = << >> THEN charset
    ELSE ExcludeAll(ReplaceAll(charset, Head(exclude)), Tail(exclude))

\* the value of charset when the loop over the password starts
charsetOf(config) ==
    LET withLetters == IF config.UseLetters THEN letters ELSE << >>
        withNum     == IF config.UseNum THEN withLetters \o numbers
                                        ELSE withLetters
        withSpecial == IF config.UseSpecial THEN withNum \o specialChars
                                            ELSE withNum
        stripped    == ExcludeAll(withSpecial, config.ExcludeSpecial)
    IN IF stripped = << >> THEN letters \o numbers ELSE stripped

\* the value of config.Length when the password is made
lengthOf(config) ==
    IF config.Length = 0 THEN defaultLength ELSE config.Length

\* no call of GenerateRandomPassword is being followed
NoCall ==
    [ pc |-> "none", config |-> PasswordConfig(0, FALSE, FALSE, FALSE, << >>),
      charset |-> << >>, length |-> 0, i |-> 0, byte |-> "", err |-> NoErr ]

\* NewTenantDB / NewTenantSchema: roleNamePrefix := tenantName, or dbName
roleNamePrefixOf(a) == IF a.tenantName = "" THEN a.dbName ELSE a.tenantName

----------------------------------------------------------------------------
(* The SQL statements, as the code builds them with fmt.Sprintf: sql is   *)
(* the text handed to Exec, ops the commands the server reads in it.       *)

Stmt(sql, ops) == [sql |-> sql, ops |-> ops]

\* a teardown that hands the objects over and revokes nothing
dropOwnedByRole_ReassignOnly(roleName, pgRoleName) ==
    Stmt("REASSIGN OWNED BY " \o roleName \o " TO " \o pgRoleName \o ";",
         << [op |-> "REASSIGN OWNED", role |-> roleName, to |-> pgRoleName] >>)

\* a teardown that drops what the role owns without handing it over first
dropOwnedByRole_DropOnly(roleName, pgRoleName) ==
    Stmt("SET ROLE " \o roleName \o "; DROP OWNED BY " \o roleName
           \o "; RESET ROLE;",
         << [op |-> "SET ROLE", role |-> roleName],
            [op |-> "DROP OWNED", role |-> roleName],
            [op |-> "RESET ROLE"] >>)

\* DropRole
dropOwnedByRole(roleName, pgRoleName) ==
    Stmt("REASSIGN OWNED BY " \o roleName \o " TO " \o pgRoleName
           \o "; SET ROLE " \o roleName \o "; DROP OWNED BY " \o roleName
           \o "; RESET ROLE;",
         << [op |-> "REASSIGN OWNED", role |-> roleName, to |-> pgRoleName],
            [op |-> "SET ROLE", role |-> roleName],
            [op |-> "DROP OWNED", role |-> roleName],
            [op |-> "RESET ROLE"] >>)

dropRole(roleName) ==
    Stmt("DROP ROLE IF EXISTS " \o roleName \o ";",
         << [op |-> "DROP ROLE", role |-> roleName] >>)

\* DropDB
dropDBAlter(dbName, pgRoleName) ==
    Stmt("ALTER DATABASE " \o dbName \o " OWNER TO " \o pgRoleName \o ";",
         << [op |-> "ALTER DATABASE OWNER", to |-> pgRoleName] >>)

dropDB(dbName) ==
    Stmt("DROP DATABASE IF EXISTS " \o dbName \o " WITH (FORCE);",
         << [op |-> "DROP DATABASE"] >>)

\* CreateGroup
createGroup(groupname) ==
    Stmt("CREATE ROLE " \o groupname \o " WITH NOLOGIN;",
         << [op |-> "CREATE ROLE", role |-> groupname, login |-> FALSE,
             password |-> 0] >>)

\* CreateUser.  The password is printed as its draw index.
\* the characters of a password, as %s prints them
PasswordText(password) ==
    IF password = EmptyPassword THEN "" ELSE ToString(password)

\* a CREATE ROLE that gives the login role no password
createUser_NoPassword(user) ==
    Stmt("CREATE ROLE " \o user.Username \o " WITH LOGIN;",
         << [op |-> "CREATE ROLE", role |-> user.Username, login |-> FALSE,
             password |-> EmptyPassword] >>)

createUser(user) ==
    Stmt("CREATE ROLE " \o user.Username \o " WITH LOGIN PASSWORD '"
           \o PasswordText(user.Password) \o "';",
         << [op |-> "CREATE ROLE", role |-> user.Username, login |-> TRUE,
             password |-> user.Password] >>)

grantGroup(groupname, username) ==
    Stmt("GRANT " \o groupname \o " TO " \o username \o ";",
         << [op |-> "GRANT ROLE", group |-> groupname, member |-> username] >>)

\* ConnectDB
setRole(roleName) ==
    Stmt("SET ROLE " \o roleName \o ";",
         << [op |-> "SET ROLE", role |-> roleName] >>)

resetRole == Stmt("RESET ROLE;", << [op |-> "RESET ROLE"] >>)

\* NewTenantDB
createDB(dbName) ==
    Stmt("CREATE DATABASE " \o dbName \o ";", << [op |-> "CREATE DATABASE"] >>)

alterDB(dbName, ownerRole) ==
    Stmt("ALTER DATABASE " \o dbName \o " OWNER TO " \o ownerRole \o ";",
         << [op |-> "ALTER DATABASE OWNER", to |-> ownerRole] >>)

revokeDBPublic(dbName) ==
    Stmt("REVOKE ALL ON DATABASE " \o dbName \o " FROM PUBLIC;",
         << [op |-> "REVOKE PUBLIC", what |-> {"db"}] >>)

revokeSchemaPublic ==
    Stmt("REVOKE CREATE ON SCHEMA public FROM PUBLIC;",
         << [op |-> "REVOKE PUBLIC", what |-> {"public"}] >>)

\* NewTenantSchema: the schema
dropSchema(schemaName) ==
    Stmt("DROP SCHEMA IF EXISTS " \o schemaName \o " CASCADE;",
         << [op |-> "DROP SCHEMA"] >>)

createSchema(schemaName) ==
    Stmt("CREATE SCHEMA " \o schemaName \o ";", << [op |-> "CREATE SCHEMA"] >>)

revokeCreateOnSchema(schemaName) ==
    Stmt("REVOKE CREATE ON SCHEMA " \o schemaName \o " FROM PUBLIC;",
         << [op |-> "REVOKE PUBLIC", what |-> {"schema"}] >>)

\* NewTenantSchema: the grants.  g is the SchemaGroups value.
Grant(on, privs, to) == [op |-> "GRANT", on |-> on, privs |-> privs, to |-> to]

grantDBAccess(dbName, g) ==
    Stmt("GRANT CONNECT, TEMPORARY ON DATABASE " \o dbName \o " TO "
           \o g.Admin \o ", " \o g.ReadWrite \o ", " \o g.ReadOnly \o ";",
         << Grant("database", {"CONNECT", "TEMPORARY"},
                  {g.Admin, g.ReadWrite, g.ReadOnly}) >>)

grantSchemaAdminCreate(schemaName, g) ==
    Stmt("GRANT USAGE, CREATE ON SCHEMA " \o schemaName \o " TO " \o g.Admin \o ";",
         << Grant("schema", {"USAGE", "CREATE"}, {g.Admin}) >>)

grantSchemaAdminTables(schemaName, g) ==
    Stmt("GRANT ALL ON ALL TABLES IN SCHEMA " \o schemaName \o " TO " \o g.Admin \o ";",
         << Grant("tables", {"ALL"}, {g.Admin}) >>)

grantSchemaAdminSequences(schemaName, g) ==
    Stmt("GRANT ALL ON ALL SEQUENCES IN SCHEMA " \o schemaName \o " TO " \o g.Admin \o ";",
         << Grant("sequences", {"ALL"}, {g.Admin}) >>)

grantSchemaUsage(schemaName, g) ==
    Stmt("GRANT USAGE ON SCHEMA " \o schemaName \o " TO "
           \o g.ReadWrite \o ", " \o g.ReadOnly \o ";",
         << Grant("schema", {"USAGE"}, {g.ReadWrite, g.ReadOnly}) >>)

grantTablesRead(schemaName, g) ==
    Stmt("GRANT SELECT ON ALL TABLES IN SCHEMA " \o schemaName \o " TO "
           \o g.ReadWrite \o ", " \o g.ReadOnly \o ";",
         << Grant("tables", {"SELECT"}, {g.ReadWrite, g.ReadOnly}) >>)

grantSequencesRead(schemaName, g) ==
    Stmt("GRANT USAGE, SELECT ON ALL SEQUENCES IN SCHEMA " \o schemaName \o " TO "
           \o g.ReadWrite \o ", " \o g.ReadOnly \o ";",
         << Grant("sequences", {"USAGE", "SELECT"}, {g.ReadWrite, g.ReadOnly}) >>)

defaultAlter(schemaName) == "ALTER DEFAULT PRIVILEGES IN SCHEMA " \o schemaName

grantDefaultSequencesRead(schemaName, g) ==
    Stmt(defaultAlter(schemaName) \o " GRANT USAGE, SELECT ON SEQUENCES TO "
           \o g.ReadWrite \o ", " \o g.ReadOnly \o ";",
         << Grant("default sequences", {"USAGE", "SELECT"},
                  {g.ReadWrite, g.ReadOnly}) >>)

grantDefaultSequencesWrite(schemaName, g) ==
    Stmt(defaultAlter(schemaName) \o " GRANT UPDATE ON SEQUENCES TO "
           \o g.ReadWrite \o ";",
         << Grant("default sequences", {"UPDATE"}, {g.ReadWrite}) >>)

grantDefaultTablesRead(schemaName, g) ==
    Stmt(defaultAlter(schemaName) \o " GRANT SELECT ON TABLES TO "
           \o g.ReadOnly \o ";",
         << Grant("default tables", {"SELECT"}, {g.ReadOnly}) >>)

grantDefaultTablesReadWrite(schemaName, g) ==
    Stmt(defaultAlter(schemaName)
           \o " GRANT SELECT, INSERT, UPDATE, DELETE ON TABLES TO "
           \o g.ReadWrite \o ";",
         << Grant("default tables", {"SELECT", "INSERT", "UPDATE", "DELETE"},
                  {g.ReadWrite}) >>)

\* the ten statements of the grant-wiring closure, in the order they are run
schemaGrants(schemaName, g) ==
    << grantSchemaAdminCreate(schemaName, g),
       grantSchemaAdminTables(schemaName, g),
       grantSchemaAdminSequences(schemaName, g),
       grantSchemaUsage(schemaName, g),
       grantTablesRead(schemaName, g),
       grantSequencesRead(schemaName, g),
       grantDefaultSequencesRead(schemaName, g),
       grantDefaultSequencesWrite(schemaName, g),
       grantDefaultTablesRead(schemaName, g),
       grantDefaultTablesReadWrite(schemaName, g) >>

----------------------------------------------------------------------------
(* The cluster.  d is a record:                                            *)
(*   roles       the roles of pg_roles                                     *)
(*   login       <<role, password>> for every role WITH LOGIN              *)
(*   member      <<group, member>> for every GRANT group TO member         *)
(*   grants      [on, priv, to, by]: privilege priv on "database",         *)
(*               "schema", or by default on the "default tables" /         *)
(*               "default sequences" that role by creates in the schema    *)
(*   objOwner    owner of each object of Objs (NoRole: no such object)     *)
(*   schemaOwner owner of the tenant schema (NoRole: no such schema)       *)
(*   dbOwner     owner of the tenant database (NoRole: no such database)   *)
(*   pub         what PUBLIC may do in the tenant database                 *)
(*   sameDB      the root pool is connected to the tenant database         *)
(* The objects of Objs live outside the tenant schema: "here" in the       *)
(* database of the root pool, "elsewhere" in another database.             *)

Objs == {"here", "elsewhere"}

PublicDefaults == {"db", "public"}

Res(ok, d, as) == [ok |-> ok, db |-> d, as |-> as]

\* as may act on what owner owns (the operator is a superuser)
MayActFor(as, owner) == as = Operator \/ as = owner

Owns(d, r) ==
    \/ \E o \in Objs : d.objOwner[o] = r
    \/ d.schemaOwner = r
    \/ d.dbOwner = r

HoldsPrivilege(d, r) == \E g \in d.grants : g.to = r \/ g.by = r

\* the grants DROP OWNED / DROP SCHEMA / DROP DATABASE take away
InTenantDB(g) == g.on # "database"

ReassignOwned(d, as, c) ==
    IF c.role \notin d.roles \/ c.to \notin d.roles \/ as # Operator
    THEN Res(FALSE, d, as)
    ELSE Res(TRUE,
             [d EXCEPT
                !.objOwner = [o \in Objs |->
                                IF o = "here" /\ @[o] = c.role THEN c.to ELSE @[o]],
                !.dbOwner = IF @ = c.role THEN c.to ELSE @,
                !.schemaOwner = IF d.sameDB /\ @ = c.role THEN c.to ELSE @],
             as)

DropOwned(d, as, c) ==
    IF c.role \notin d.roles \/ ~MayActFor(as, c.role)
    THEN Res(FALSE, d, as)
    ELSE LET dropsSchema == d.sameDB /\ d.schemaOwner = c.role IN
         Res(TRUE,
             [d EXCEPT
                !.objOwner = [o \in Objs |->
                                IF o = "here" /\ @[o] = c.role THEN NoRole ELSE @[o]],
                !.schemaOwner = IF dropsSchema THEN NoRole ELSE @,
                !.grants = { g \in @ :
                               /\ ~(dropsSchema /\ InTenantDB(g))
                               /\ ~( /\ (g.to = c.role \/ g.by = c.role)
                                     /\ (d.sameDB \/ ~InTenantDB(g)) ) }],
             as)

DropRoleOp(d, as, c) ==
    IF c.role \notin d.roles THEN Res(TRUE, d, as)
    ELSE IF as # Operator \/ Owns(d, c.role) \/ HoldsPrivilege(d, c.role)
    THEN Res(FALSE, d, as)
    ELSE Res(TRUE,
             [d EXCEPT
                !.roles = @ \ {c.role},
                !.login = { l \in @ : l[1] # c.role },
                !.member = { m \in @ : m[1] # c.role /\ m[2] # c.role }],
             as)

CreateRoleOp(d, as, c) ==
    IF c.role \in d.roles \/ as # Operator THEN Res(FALSE, d, as)
    ELSE Res(TRUE,
             [d EXCEPT
                !.roles = @ \cup {c.role},
                !.login = IF c.login THEN @ \cup {<<c.role, c.password>>} ELSE @],
             as)

GrantRoleOp(d, as, c) ==
    IF c.group \notin d.roles \/ c.member \notin d.roles \/ as # Operator
    THEN Res(FALSE, d, as)
    ELSE Res(TRUE, [d EXCEPT !.member = @ \cup {<<c.group, c.member>>}], as)

SetRoleOp(d, as, c) ==
    IF c.role \in d.roles THEN Res(TRUE, d, c.role) ELSE Res(FALSE, d, as)

CreateDatabaseOp(d, as, c) ==
    IF d.dbOwner # NoRole \/ as # Operator THEN Res(FALSE, d, as)
    ELSE Res(TRUE, [d EXCEPT !.dbOwner = as, !.pub = PublicDefaults], as)

AlterDatabaseOwnerOp(d, as, c) ==
    IF d.dbOwner = NoRole \/ c.to \notin d.roles \/ ~MayActFor(as, d.dbOwner)
    THEN Res(FALSE, d, as)
    ELSE Res(TRUE, [d EXCEPT !.dbOwner = c.to], as)

\* DROP DATABASE IF EXISTS ... WITH (FORCE): not of the database one is connected to
DropDatabaseOp(d, as, c) ==
    IF d.dbOwner = NoRole THEN Res(TRUE, d, as)
    ELSE IF d.sameDB \/ ~MayActFor(as, d.dbOwner) THEN Res(FALSE, d, as)
    ELSE Res(TRUE,
             [d EXCEPT !.dbOwner = NoRole, !.schemaOwner = NoRole, !.pub = {},
                       !.grants = {}],
             as)

DropSchemaOp(d, as, c) ==
    IF d.schemaOwner = NoRole THEN Res(TRUE, d, as)
    ELSE IF ~MayActFor(as, d.schemaOwner) THEN Res(FALSE, d, as)
    ELSE Res(TRUE,
             [d EXCEPT !.schemaOwner = NoRole,
                       !.grants = { g \in @ : ~InTenantDB(g) }],
             as)

CreateSchemaOp(d, as, c) ==
    IF d.dbOwner = NoRole \/ d.schemaOwner # NoRole \/ ~MayActFor(as, d.dbOwner)
    THEN Res(FALSE, d, as)
    ELSE Res(TRUE, [d EXCEPT !.schemaOwner = as], as)

RevokePublicOp(d, as, c) ==
    IF \/ d.dbOwner = NoRole
       \/ "schema" \in c.what /\ ~(d.schemaOwner # NoRole /\ MayActFor(as, d.schemaOwner))
       \/ "schema" \notin c.what /\ ~MayActFor(as, d.dbOwner)
    THEN Res(FALSE, d, as)
    ELSE Res(TRUE, [d EXCEPT !.pub = @ \ c.what], as)

\* GRANT and ALTER DEFAULT PRIVILEGES ... GRANT.  A grant on ALL TABLES or ALL
\* SEQUENCES IN SCHEMA reaches the tables that exist: the schema was just
\* created and has none.  Default privileges are those of the role that runs
\* the statement (no FOR ROLE clause).
GrantOp(d, as, c) ==
    IF \/ ~(c.to \subseteq d.roles)
       \/ d.dbOwner = NoRole
       \/ c.on = "database" /\ ~MayActFor(as, d.dbOwner)
       \/ c.on # "database" /\ ~(d.schemaOwner # NoRole /\ MayActFor(as, d.schemaOwner))
    THEN Res(FALSE, d, as)
    ELSE IF c.on \in {"tables", "sequences"} THEN Res(TRUE, d, as)
    ELSE Res(TRUE,
             [d EXCEPT !.grants = @ \cup
                 { [on |-> c.on, priv |-> p, to |-> r,
                    by |-> IF c.on \in {"default tables", "default sequences"}
                           THEN as ELSE NoRole] : p \in c.privs, r \in c.to }],
             as)

ApplyOp(d, as, c) ==
    CASE c.op = "REASSIGN OWNED"       -> ReassignOwned(d, as, c)
      [] c.op = "DROP OWNED"           -> DropOwned(d, as, c)
      [] c.op = "DROP ROLE"            -> DropRoleOp(d, as, c)
      [] c.op = "CREATE ROLE"          -> CreateRoleOp(d, as, c)
      [] c.op = "GRANT ROLE"           -> GrantRoleOp(d, as, c)
      [] c.op = "SET ROLE"             -> SetRoleOp(d, as, c)
      [] c.op = "RESET ROLE"           -> Res(TRUE, d, Operator)
      [] c.op = "CREATE DATABASE"      -> CreateDatabaseOp(d, as, c)
      [] c.op = "ALTER DATABASE OWNER" -> AlterDatabaseOwnerOp(d, as, c)
      [] c.op = "DROP DATABASE"        -> DropDatabaseOp(d, as, c)
      [] c.op = "DROP SCHEMA"          -> DropSchemaOp(d, as, c)
      [] c.op = "CREATE SCHEMA"        -> CreateSchemaOp(d, as, c)
      [] c.op = "REVOKE PUBLIC"        -> RevokePublicOp(d, as, c)
      [] c.op = "GRANT"                -> GrantOp(d, as, c)

\* One simple-query message: its commands run in one implicit transaction, so
\* that a failing command undoes the ones before it.
RECURSIVE ApplyOps(_, _, _)
ApplyOps(d, as, ops) ==
    IF ops = << >> THEN Res(TRUE, d, as)
    ELSE LET r == ApplyOp(d, as, Head(ops)) IN
         IF r.ok THEN ApplyOps(r.db, r.as, Tail(ops)) ELSE r

Apply(d, as, stmt) ==
    LET r == ApplyOps(d, as, stmt.ops) IN
    IF r.ok THEN r ELSE Res(FALSE, d, as)

----------------------------------------------------------------------------
(* Initial states: the environment, the command line and the cluster.      *)

Envs ==
    { [haltOnError |-> h, outSQLFile |-> f[1], outCredsFile |-> f[2],
       helpers |-> "part_002"] :
        h \in {"", "true"},
        f \in { <<"", "">>, <<"out.sql", "creds.json">> } }

\* the same environments for the program built with the helpers of helpers.go
HelpersEnvs == { [e EXCEPT !.helpers = "helpers.go"] : e \in Envs }

Fresh ==
    [ roles |-> {Operator}, login |-> {}, member |-> {}, grants |-> {},
      objOwner |-> [o \in Objs |-> NoRole], schemaOwner |-> NoRole,
      dbOwner |-> NoRole, pub |-> {}, sameDB |-> FALSE ]

\* the cluster after create-database for the tenant
WithDB(prefix) ==
    [ Fresh EXCEPT !.roles = {Operator, tenantOwnerName(prefix)},
                   !.dbOwner = tenantOwnerName(prefix) ]

\* the cluster after create-database and create-schema for the tenant
Provisioned(prefix, schemaName) ==
    LET g == tenantSchemaGroupNames(prefix, schemaName)
        u == newTenantSchemaUserCredentials(prefix, schemaName, 100, {})
        owner == tenantOwnerName(prefix)
        G(on, privs, to, by) ==
            { [on |-> on, priv |-> q, to |-> r, by |-> by] : q \in privs, r \in to }
    IN [ WithDB(prefix) EXCEPT
           !.roles = @ \cup {g.Admin, g.ReadWrite, g.ReadOnly, u.Admin.Username,
                             u.ReadWrite.Username, u.ReadOnly.Username},
           !.login = { <<u.Admin.Username, u.Admin.Password>>,
                       <<u.ReadWrite.Username, u.ReadWrite.Password>>,
                       <<u.ReadOnly.Username, u.ReadOnly.Password>> },
           !.member = { <<g.Admin, u.Admin.Username>>,
                        <<g.ReadWrite, u.ReadWrite.Username>>,
                        <<g.ReadOnly, u.ReadOnly.Username>> },
           !.schemaOwner = owner,
           !.grants =
               G("database", {"CONNECT", "TEMPORARY"},
                 {g.Admin, g.ReadWrite, g.ReadOnly}, NoRole)
               \cup G("schema", {"USAGE", "CREATE"}, {g.Admin}, NoRole)
               \cup G("schema", {"USAGE"}, {g.ReadWrite, g.ReadOnly}, NoRole)
               \cup G("default sequences", {"USAGE", "SELECT"},
                      {g.ReadWrite, g.ReadOnly}, owner)
               \cup G("default sequences", {"UPDATE"}, {g.ReadWrite}, owner)
               \cup G("default tables", {"SELECT"}, {g.ReadOnly}, owner)
               \cup G("default tables", {"SELECT", "INSERT", "UPDATE", "DELETE"},
                      {g.ReadWrite}, owner) ]

Args(cmd, dbName, schemaName, tenantName, roleName) ==
    [ cmd |-> cmd, dbName |-> dbName, schemaName |-> schemaName,
      tenantName |-> tenantName, roleName |-> roleName ]

Scenarios ==
    LET u  == newTenantSchemaUserCredentials("acme", "billing", 0, {})
        g  == tenantSchemaGroupNames("acme", "billing")
        ut == newTenantSchemaUserCredentials("t1", "billing", 0, {})
    IN
    { \* a first create-database
      [ args |-> Args("create-database", "acme", "", "", ""), db |-> Fresh ],
      \* create-database over a provisioned tenant whose owner owns an object
      [ args |-> Args("create-database", "acme", "", "", ""),
        db |-> [ Provisioned("acme", "billing") EXCEPT
                   !.objOwner["here"] = tenantOwnerName("acme") ] ],
      \* a first create-schema
      [ args |-> Args("create-schema", "acme", "billing", "", ""),
        db |-> [ WithDB("acme") EXCEPT !.pub = PublicDefaults ] ],
      \* create-schema again; the admin user owns an object
      [ args |-> Args("create-schema", "acme", "billing", "", ""),
        db |-> [ Provisioned("acme", "billing") EXCEPT
                   !.objOwner["here"] = u.Admin.Username ] ],
      \* create-schema again; roles own objects here and in another database
      [ args |-> Args("create-schema", "acme", "billing", "", ""),
        db |-> [ Provisioned("acme", "billing") EXCEPT
                   !.objOwner["here"] = g.Admin,
                   !.objOwner["elsewhere"] = u.ReadWrite.Username ] ],
      \* create-schema with a tenant name, connected to the tenant database
      [ args |-> Args("create-schema", "acme", "billing", "t1", ""),
        db |-> [ Provisioned("t1", "billing") EXCEPT
                   !.sameDB = TRUE,
                   !.objOwner["here"] = ut.ReadOnly.Username ] ],
      \* create-schema without a database name
      [ args |-> Args("create-schema", "", "billing", "", ""),
        db |-> WithDB("acme") ] }

\* pgInstance: nil, or the Postgres value made around the id-th pool opened
NilInstance == [nil |-> TRUE, roleName |-> NoRole, id |-> 0]

NoPool == [st |-> "none", as |-> NoRole]

NoUsers ==
    [ Admin     |-> [Username |-> "", Password |-> EmptyPassword],
      ReadWrite |-> [Username |-> "", Password |-> EmptyPassword],
      ReadOnly  |-> [Username |-> "", Password |-> EmptyPassword] ]

IdleCaller == [st |-> "idle", nil |-> TRUE, inst |-> 0, err |-> NoErr]

\* what two runs are compared on: role names, memberships and grants
Summary(d) ==
    [roles |-> d.roles, member |-> d.member, grants |-> d.grants,
     login |-> d.login]

NoSnap == [roles |-> {}, member |-> {}, grants |-> {}, login |-> {}]

\* what a process holds of its own: its variables, its connections, what it
\* printed and the statements it has executed
Process(p, cont, queue, index, result, exited, scoped, users, inst, o, opened, calls, printed, log) ==
    [ pc |-> p, k |-> cont, dq |-> queue, i |-> index, err |-> result,
      halted |-> exited, pool |-> scoped, tenantUsers |-> users,
      pgInstance |-> inst, once |-> o, pools |-> opened, callers |-> calls,
      stderr |-> printed, execLog |-> log ]

\* a second process that has not been started yet, and none at all
ProcessAtStart ==
    Process("main", << >>, << >>, 1, NoErr, FALSE, NoPool, NoUsers, NilInstance,
            "new", 0, [c \in 1..MaxConnects |-> IdleCaller], << >>, << >>)

NoProcess == [ProcessAtStart EXCEPT !.pc = "none"]

\* a process at its start
ProcessStart ==
    /\ stderr = << >>
    /\ execLog = << >>
    /\ once = "new"
    /\ pgInstance = NilInstance
    /\ pools = 0
    /\ callers = [c \in 1..MaxConnects |-> IdleCaller]
    /\ pc = "main"
    /\ k = << >>
    /\ dq = << >>
    /\ i = 1
    /\ err = NoErr
    /\ halted = FALSE
    /\ pool = NoPool
    /\ tenantUsers = NoUsers

Init ==
    /\ env \in Envs
    /\ \E s \in Scenarios : args = s.args /\ db = s.db
    /\ audit = << >>
    /\ credsFile = << >>
    /\ ProcessStart
    /\ nextPw = 0
    /\ budget = MaxFaults
    /\ runs = 0
    /\ snap = NoSnap
    /\ gen = NoCall
    /\ other = NoProcess
    /\ raced = FALSE

----------------------------------------------------------------------------
(* part_002: the audit file *)

Marker(text) == [kind |-> "marker", text |-> text]
SqlLine(text) == [kind |-> "sql", text |-> text]

\* appendToFile(outSQLFile, line) behind "if outSQLFile != """
appendToFile(file, line) ==
    IF env.outSQLFile # "" THEN Append(file, line) ELSE file

\* truncateFile(outSQLFile) behind "if outSQLFile != """
truncateFile(file) ==
    IF env.outSQLFile # "" THEN << >> ELSE file

----------------------------------------------------------------------------
(* The faults of the environment *)

\* a statement, probe, connection or write may fail while the budget lasts
Inject == IF budget > 0 THEN {FALSE, TRUE} ELSE {FALSE}

Spend(inj) == budget' = IF inj THEN budget - 1 ELSE budget

----------------------------------------------------------------------------
(* pg.go: Connect.  The process starts with MaxConnects concurrent calls   *)
(* of Connect, main's being one of them, and goes on when all have         *)
(* returned; Connect may be called again when the command has returned.    *)

\* a Connect whose initialisation is not guarded by pgOnce
ConnectEnter_NoOnce(c) ==
    /\ callers[c].st = "idle"
    /\ pc = "main"
    /\ once' = "running"
    /\ callers' = [callers EXCEPT ![c].st = "init"]
    /\ UNCHANGED <<other, raced, gen, env, args, db, audit, credsFile, stderr, execLog, pgInstance,
                   pools, pc, k, dq, i, err, halted, pool, tenantUsers, nextPw,
                   budget, runs, snap>>

\* Connect reaches pgOnce.Do: the first caller runs the function, a caller
\* that arrives while it runs waits, later callers pass
ConnectEnter(c) ==
    /\ callers[c].st = "idle"
    /\ pc = "main"
    /\ once # "running"
    /\ IF once = "new"
       THEN /\ once' = "running"
            /\ callers' = [callers EXCEPT ![c].st = "init"]
       ELSE /\ once' = once
            /\ callers' = [callers EXCEPT ![c].st = "after"]
    /\ UNCHANGED <<other, raced, gen, env, args, db, audit, credsFile, stderr, execLog, pgInstance,
                   pools, pc, k, dq, i, err, halted, pool, tenantUsers, nextPw,
                   budget, runs, snap>>

\* the function given to pgOnce.Do: pgxpool.New, SELECT current_role.  The
\* err of a failure is a variable of the closure
ConnectInit(c) ==
    /\ callers[c].st = "init"
    /\ \E inj \in Inject, newFails \in BOOLEAN :
         /\ newFails => inj
         /\ Spend(inj)
         /\ pools' = IF newFails THEN pools ELSE pools + 1
         /\ pgInstance' = IF inj THEN pgInstance
                          ELSE [nil |-> FALSE, roleName |-> Operator,
                                id |-> pools']
         /\ callers' = [callers EXCEPT ![c].st = "after"]
    /\ once' = "done"
    /\ UNCHANGED <<other, raced, gen, env, args, db, audit, credsFile, stderr, execLog, pc, k, dq,
                   i, err, halted, pool, tenantUsers, nextPw, runs, snap>>

\* after pgOnce.Do: truncate the audit file, return pgInstance, nil
ConnectReturn(c) ==
    /\ callers[c].st = "after"
    /\ audit' = truncateFile(audit)
    /\ callers' = [callers EXCEPT ![c].st = "returned",
                                  ![c].nil = pgInstance.nil,
                                  ![c].inst = pgInstance.id,
                                  ![c].err = NoErr]
    /\ UNCHANGED <<other, raced, gen, env, args, db, credsFile, stderr, execLog, once, pgInstance,
                   pools, pc, k, dq, i, err, halted, pool, tenantUsers, nextPw,
                   budget, runs, snap>>

\* Connect called once more after the command: pgOnce.Do does nothing, the
\* audit file is truncated, pgInstance is returned with a nil error
ConnectAgain ==
    /\ pc = "done"
    /\ once = "done"
    /\ audit # truncateFile(audit)
    /\ audit' = truncateFile(audit)
    /\ UNCHANGED <<other, raced, gen, env, args, db, credsFile, stderr, execLog, once, pgInstance,
                   pools, callers, pc, k, dq, i, err, halted, pool,
                   tenantUsers, nextPw, budget, runs, snap>>

----------------------------------------------------------------------------
(* pg.go: RunExec *)

\* a RunExec that prints the error under halt-on-error and returns
RunExec_NoExit(sql, failed) ==
    /\ execLog' = Append(execLog, [sql |-> sql, ok |-> ~failed])
    /\ stderr' = IF failed /\ env.haltOnError # ""
                 THEN Append(stderr, [by |-> "RunExec", text |-> sql])
                 ELSE stderr
    /\ halted' = FALSE
    /\ audit' = appendToFile(audit, SqlLine(sql))

\* RunExec(x, ctx, sql) where x.Exec failed or not: the statement was handed
\* to the server; on a failure with halt-on-error the error is printed and
\* the process exits; otherwise the statement is appended to the audit file
RunExec(sql, failed) ==
    /\ execLog' = Append(execLog, [sql |-> sql, ok |-> ~failed])
    /\ IF failed /\ env.haltOnError # ""
       THEN /\ stderr' = Append(stderr, [by |-> "RunExec", text |-> sql])
            /\ halted' = TRUE
            /\ audit' = audit
       ELSE /\ stderr' = stderr
            /\ halted' = FALSE
            /\ audit' = appendToFile(audit, SqlLine(sql))

\* pg.RunExec(x, ctx, stmt.sql) on a connection whose current role is as
Run(stmt, as, inj) ==
    LET r == Apply(db, as, stmt) IN
    /\ inj => r.ok
    /\ Spend(inj)
    /\ RunExec(stmt.sql, inj \/ ~r.ok)
    /\ db' = IF inj THEN db ELSE r.db

Fails(stmt, as, inj) == inj \/ ~Apply(db, as, stmt).ok

\* the next position, unless RunExec has ended the process
Goto(l) == pc' = IF halted' THEN "exit" ELSE l

----------------------------------------------------------------------------
(* main.go: createDB, createSchema *)

\* pg.Connect returned to main with a nil error: defer pgInstance.Close(),
\* pgInstance.Ping(ctx), then the command.  With a nil pgInstance, Ping
\* dereferences a nil pointer and the process panics
Main ==
    /\ pc = "main"
    /\ \A c \in 1..MaxConnects : callers[c].st = "returned"
    /\ \E inj \in Inject :
         /\ inj => ~callers[1].nil
         /\ Spend(inj)
         /\ IF callers[1].nil
            THEN pc' = "panic" /\ stderr' = stderr
            ELSE IF inj
            THEN /\ pc' = "exit"
                 /\ stderr' = Append(stderr, [by |-> "main", text |-> "ping"])
            ELSE /\ pc' = IF args.cmd = "create-database" THEN "ntd" ELSE "nts"
                 /\ stderr' = stderr
    /\ UNCHANGED <<other, raced, gen, env, args, db, audit, credsFile, execLog, once, pgInstance,
                   pools, callers, k, dq, i, err, halted, pool, tenantUsers,
                   nextPw, runs, snap>>

\* the command returned err to main, which prints it and exits with status 1
Return ==
    /\ pc = "return"
    /\ pc' = "done"
    /\ stderr' = IF err # NoErr
                 THEN Append(stderr, [by |-> "main", text |-> err])
                 ELSE stderr
    /\ runs' = runs + 1
    /\ UNCHANGED <<other, raced, gen, env, args, db, audit, credsFile, execLog, once, pgInstance,
                   pools, callers, k, dq, i, err, halted, pool, tenantUsers,
                   nextPw, budget, snap>>

----------------------------------------------------------------------------
(* pg.go: the names of one run *)

roleNamePrefix == roleNamePrefixOf(args)
ownerRole      == tenantOwnerName(roleNamePrefix)
schemaGroups   ==
    IF env.helpers = "helpers.go"
    THEN helpers_tenantSchemaGroupNames(roleNamePrefix, args.schemaName)
    ELSE tenantSchemaGroupNames(roleNamePrefix, args.schemaName)

\* NewTenantSchema: connConfig.RoleName defaults to the owner role;
\* NewTenantDB connects with ConnectDBConfig{DBName: dbName}
connRoleName ==
    IF args.cmd = "create-database" THEN ""
    ELSE IF args.roleName = "" THEN ownerRole ELSE args.roleName

\* in declaration order: Admin, ReadWrite, ReadOnly
TierOf(n) == IF n = 1 THEN "Admin" ELSE IF n = 2 THEN "ReadWrite" ELSE "ReadOnly"

----------------------------------------------------------------------------
(* pg.go: ConnectDB and the closures that use the scoped pool.  ph is the  *)
(* closure: "s1" the schema, "s2" the grants (NewTenantSchema), "d" the    *)
(* revoke on schema public (NewTenantDB).                                  *)

Phases == {"s1", "s2", "d"}

\* where the command goes on when the closure of ph has returned e
AfterClosure(ph, e) ==
    IF ph = "d" \/ e # NoErr THEN "return"
    ELSE IF ph = "s1" THEN "groups" ELSE "users"

\* the first statement of the closure of ph
Body(ph) ==
    IF ph = "s1" THEN "s1_drop" ELSE IF ph = "s2" THEN "s2_grant"
    ELSE "d_revokeSchema"

\* pg.ConnectDB: pgxpool.NewWithConfig with MaxConns = MinConns = 1
ConnectDB(ph) ==
    /\ pc = ph \o "_connect"
    /\ \E inj \in Inject :
         /\ Spend(inj)
         /\ IF inj
            THEN /\ err' = IF ph = "d" THEN "unable to create connection pool"
                           ELSE "unable to connect to database"
                 /\ pool' = pool
                 /\ pc' = AfterClosure(ph, err')
            ELSE /\ err' = NoErr
                 /\ pool' = [st |-> "open", as |-> NoRole]
                 /\ pc' = ph \o "_acquire"
    /\ UNCHANGED <<other, raced, gen, env, args, db, audit, credsFile, stderr, execLog, once,
                   pgInstance, pools, callers, k, dq, i, halted, tenantUsers,
                   nextPw, runs, snap>>

\* tmpPool.Acquire: BeforeConnect writes its marker, the connection to the
\* tenant database is made.  When it cannot be made, the closure returns and
\* the deferred tmpPool.Close() finds no connection to close
Acquire(ph) ==
    /\ pc = ph \o "_acquire"
    /\ audit' = appendToFile(audit, Marker("-- connecting to database " \o args.dbName))
    /\ \E inj \in Inject :
         /\ inj => db.dbOwner # NoRole
         /\ Spend(inj)
         /\ IF inj \/ db.dbOwner = NoRole
            THEN /\ err' = "unable to acquire connection"
                 /\ pool' = NoPool
                 /\ pc' = AfterClosure(ph, err')
            ELSE /\ err' = NoErr
                 /\ IF connRoleName # ""
                    THEN /\ pool' = [st |-> "connecting", as |-> Operator]
                         /\ pc' = ph \o "_setrole"
                    ELSE /\ pool' = [st |-> "conn", as |-> Operator]
                         /\ pc' = Body(ph)
    /\ UNCHANGED <<other, raced, gen, env, args, db, credsFile, stderr, execLog, once, pgInstance,
                   pools, callers, k, dq, i, halted, tenantUsers, nextPw, runs,
                   snap>>

\* an AfterConnect whose error is dropped: the connection is handed out as
\* the operator
AfterConnect_HandsOut(ph) ==
    /\ pc = ph \o "_setrole"
    /\ \E inj \in Inject :
         LET stmt == setRole(connRoleName)
             failed == Fails(stmt, pool.as, inj)
         IN /\ Run(stmt, pool.as, inj)
            /\ err' = NoErr
            /\ pool' = [st |-> "conn",
                        as |-> IF failed THEN pool.as ELSE connRoleName]
            /\ Goto(Body(ph))
    /\ UNCHANGED <<other, raced, gen, env, args, credsFile, once, pgInstance, pools, callers, k,
                   dq, i, tenantUsers, nextPw, runs, snap>>

\* AfterConnect: SET ROLE through RunExec.  On an error pgxpool closes the
\* new connection itself (BeforeClose is not called) and Acquire fails
AfterConnect(ph) ==
    /\ pc = ph \o "_setrole"
    /\ \E inj \in Inject :
         LET stmt == setRole(connRoleName)
             failed == Fails(stmt, pool.as, inj)
         IN /\ Run(stmt, pool.as, inj)
            /\ IF failed
               THEN /\ err' = "unable to acquire connection"
                    /\ pool' = IF halted' THEN pool ELSE NoPool
                    /\ Goto(AfterClosure(ph, err'))
               ELSE /\ err' = NoErr
                    /\ pool' = [st |-> "conn", as |-> connRoleName]
                    /\ Goto(Body(ph))
    /\ UNCHANGED <<other, raced, gen, env, args, credsFile, once, pgInstance, pools, callers, k,
                   dq, i, tenantUsers, nextPw, runs, snap>>

\* the deferred conn.Release() and tmpPool.Close(): BeforeClose runs RESET
\* ROLE through RunExec when a role was requested ...
BeforeCloseReset(ph) ==
    /\ pc = ph \o "_close"
    /\ connRoleName # ""
    /\ \E inj \in Inject : Run(resetRole, pool.as, inj)
    /\ pool' = IF halted' THEN pool ELSE [pool EXCEPT !.as = Operator]
    /\ Goto(ph \o "_closing")
    /\ UNCHANGED <<other, raced, gen, env, args, credsFile, once, pgInstance, pools, callers, k,
                   dq, i, err, tenantUsers, nextPw, runs, snap>>

\* a closure that returns without tmpPool.Close()
BeforeCloseMarker_LeavesOpen(ph) ==
    /\ \/ pc = ph \o "_closing"
       \/ pc = ph \o "_close" /\ connRoleName = ""
    /\ audit' = appendToFile(audit,
                  Marker("-- closing connection to database " \o args.dbName))
    /\ pool' = pool
    /\ pc' = AfterClosure(ph, err)
    /\ UNCHANGED <<other, raced, gen, env, args, db, credsFile, stderr, execLog, once, pgInstance,
                   pools, callers, k, dq, i, err, halted, tenantUsers, nextPw,
                   budget, runs, snap>>

\* ... and writes its marker; the connection and the pool are closed
BeforeCloseMarker(ph) ==
    /\ \/ pc = ph \o "_closing"
       \/ pc = ph \o "_close" /\ connRoleName = ""
    /\ audit' = appendToFile(audit,
                  Marker("-- closing connection to database " \o args.dbName))
    /\ pool' = NoPool
    /\ pc' = AfterClosure(ph, err)
    /\ UNCHANGED <<other, raced, gen, env, args, db, credsFile, stderr, execLog, once, pgInstance,
                   pools, callers, k, dq, i, err, halted, tenantUsers, nextPw,
                   budget, runs, snap>>

----------------------------------------------------------------------------
(* pg.go: the existence oracle and the teardown protocol *)

\* a DropRole that does not look at the answer of the probe
CheckIfRoleExists_Always(roleName, queryFails) == TRUE

\* CheckIfRoleExists: a query error is printed and the answer is false
CheckIfRoleExists(roleName, queryFails) ==
    ~queryFails /\ roleName \in db.roles

\* a CheckIfDBExists that answers from the catalog though the query failed
CheckIfDBExists_IgnoresError(queryFails) == db.dbOwner # NoRole

\* CheckIfDBExists, for the tenant database
CheckIfDBExists(queryFails) ==
    ~queryFails /\ db.dbOwner # NoRole

\* the teardown has returned: go on with the continuation
Pop ==
    /\ pc' = IF halted' THEN "exit" ELSE Head(k)
    /\ k' = IF halted' THEN k ELSE Tail(k)

\* DropRole(Head(dq)), after its last step: the next role, or the continuation
NextRole ==
    /\ dq' = IF halted' THEN dq ELSE Tail(dq)
    /\ IF ~halted' /\ Tail(dq) # << >>
       THEN pc' = "drop_probe" /\ k' = k
       ELSE Pop

\* DropRole: roleExists := pg.CheckIfRoleExists(ctx, roleName)
DropRoleProbe ==
    /\ pc = "drop_probe"
    /\ \E inj \in Inject :
         /\ Spend(inj)
         /\ stderr' = IF inj
                      THEN Append(stderr, [by |-> "CheckIfRoleExists",
                                           text |-> Head(dq)])
                      ELSE stderr
         /\ halted' = halted
         /\ IF CheckIfRoleExists(Head(dq), inj)
            THEN pc' = "drop_owned" /\ UNCHANGED <<k, dq>>
            ELSE NextRole
    /\ UNCHANGED <<other, raced, gen, env, args, db, audit, credsFile, execLog, once, pgInstance,
                   pools, callers, i, err, pool, tenantUsers, nextPw, runs,
                   snap>>

\* DropRole: pg.RunExec(pg.db, ctx, dropOwnedByRole)
DropRoleOwned ==
    /\ pc = "drop_owned"
    /\ \E inj \in Inject :
         Run(dropOwnedByRole(Head(dq), pgInstance.roleName), Operator, inj)
    /\ Goto("drop_role")
    /\ UNCHANGED <<other, raced, gen, env, args, credsFile, once, pgInstance, pools, callers, k,
                   dq, i, err, pool, tenantUsers, nextPw, runs, snap>>

\* DropRole: pg.RunExec(pg.db, ctx, dropRole)
DropRoleDrop ==
    /\ pc = "drop_role"
    /\ \E inj \in Inject : Run(dropRole(Head(dq)), Operator, inj)
    /\ NextRole
    /\ UNCHANGED <<other, raced, gen, env, args, credsFile, once, pgInstance, pools, callers, i,
                   err, pool, tenantUsers, nextPw, runs, snap>>

\* DropDB: dbExists := pg.CheckIfDBExists(ctx, dbName)
DropDBProbe ==
    /\ pc = "db_probe"
    /\ \E inj \in Inject :
         /\ Spend(inj)
         /\ stderr' = IF inj
                      THEN Append(stderr, [by |-> "CheckIfDBExists",
                                           text |-> args.dbName])
                      ELSE stderr
         /\ halted' = halted
         /\ IF CheckIfDBExists(inj)
            THEN pc' = "db_alter" /\ k' = k
            ELSE Pop
    /\ UNCHANGED <<other, raced, gen, env, args, db, audit, credsFile, execLog, once, pgInstance,
                   pools, callers, dq, i, err, pool, tenantUsers, nextPw, runs,
                   snap>>

\* a DropDB that gives up when the ownership transfer failed
DropDBAlter_StopsOnError ==
    /\ pc = "db_alter"
    /\ \E inj \in Inject :
         LET stmt == dropDBAlter(args.dbName, pgInstance.roleName) IN
         /\ Run(stmt, Operator, inj)
         /\ IF Fails(stmt, Operator, inj)
            THEN Pop
            ELSE Goto("db_drop") /\ k' = k
    /\ UNCHANGED <<other, raced, gen, env, args, credsFile, once, pgInstance, pools, callers,
                   dq, i, err, pool, tenantUsers, nextPw, runs, snap>>

\* DropDB: pg.RunExec(pg.db, ctx, alterDB)
DropDBAlter ==
    /\ pc = "db_alter"
    /\ \E inj \in Inject :
         Run(dropDBAlter(args.dbName, pgInstance.roleName), Operator, inj)
    /\ Goto("db_drop")
    /\ UNCHANGED <<other, raced, gen, env, args, credsFile, once, pgInstance, pools, callers, k,
                   dq, i, err, pool, tenantUsers, nextPw, runs, snap>>

\* DropDB: pg.RunExec(pg.db, ctx, dropDB)
DropDBDrop ==
    /\ pc = "db_drop"
    /\ \E inj \in Inject : Run(dropDB(args.dbName), Operator, inj)
    /\ Pop
    /\ UNCHANGED <<other, raced, gen, env, args, credsFile, once, pgInstance, pools, callers, dq,
                   i, err, pool, tenantUsers, nextPw, runs, snap>>

----------------------------------------------------------------------------
(* pg.go: NewTenantDB *)

\* pg.DropDB(ctx, dbName); pg.DropRole(ctx, ownerRole)
NewTenantDBBegin ==
    /\ pc = "ntd"
    /\ pc' = "db_probe"
    /\ dq' = << ownerRole >>
    /\ k' = << "drop_probe", "d_createOwner" >>
    /\ UNCHANGED <<other, raced, gen, env, args, db, audit, credsFile, stderr, execLog, once,
                   pgInstance, pools, callers, i, err, halted, pool,
                   tenantUsers, nextPw, budget, runs, snap>>

\* a NewTenantDB that goes on when the owner role could not be created
NewTenantDBCreateOwner_ErrDropped ==
    /\ pc = "d_createOwner"
    /\ \E inj \in Inject : Run(createGroup(ownerRole), Operator, inj)
    /\ err' = NoErr
    /\ Goto("d_createDB")
    /\ UNCHANGED <<other, raced, gen, env, args, credsFile, once, pgInstance, pools, callers, k,
                   dq, i, pool, tenantUsers, nextPw, runs, snap>>

\* err = pg.CreateGroup(ctx, ownerRole)
NewTenantDBCreateOwner ==
    /\ pc = "d_createOwner"
    /\ \E inj \in Inject :
         LET stmt == createGroup(ownerRole) IN
         /\ Run(stmt, Operator, inj)
         /\ IF Fails(stmt, Operator, inj)
            THEN err' = "unable to create owner role" /\ Goto("return")
            ELSE err' = NoErr /\ Goto("d_createDB")
    /\ UNCHANGED <<other, raced, gen, env, args, credsFile, once, pgInstance, pools, callers, k,
                   dq, i, pool, tenantUsers, nextPw, runs, snap>>

\* _, err = pg.RunExec(pg.db, ctx, createDB); on an error DropRole(ownerRole)
NewTenantDBCreateDB ==
    /\ pc = "d_createDB"
    /\ \E inj \in Inject :
         LET stmt == createDB(args.dbName) IN
         /\ Run(stmt, Operator, inj)
         /\ IF Fails(stmt, Operator, inj)
            THEN /\ err' = "unable to create database"
                 /\ Goto("drop_probe")
                 /\ dq' = << ownerRole >>
                 /\ k' = << "return" >>
            ELSE /\ err' = NoErr
                 /\ Goto("d_alterDB")
                 /\ UNCHANGED <<dq, k>>
    /\ UNCHANGED <<other, raced, gen, env, args, credsFile, once, pgInstance, pools, callers, i,
                   pool, tenantUsers, nextPw, runs, snap>>

\* _, err = pg.RunExec(pg.db, ctx, alterDB); on an error DropDB, DropRole
NewTenantDBAlterDB ==
    /\ pc = "d_alterDB"
    /\ \E inj \in Inject :
         LET stmt == alterDB(args.dbName, ownerRole) IN
         /\ Run(stmt, Operator, inj)
         /\ IF Fails(stmt, Operator, inj)
            THEN /\ err' = "unable to set database owner"
                 /\ Goto("db_probe")
                 /\ dq' = << ownerRole >>
                 /\ k' = << "drop_probe", "return" >>
            ELSE /\ err' = NoErr
                 /\ Goto("d_revokeDB")
                 /\ UNCHANGED <<dq, k>>
    /\ UNCHANGED <<other, raced, gen, env, args, credsFile, once, pgInstance, pools, callers, i,
                   pool, tenantUsers, nextPw, runs, snap>>

\* pg.RunExec(pg.db, ctx, revokeDBPublic)
NewTenantDBRevokeDBPublic ==
    /\ pc = "d_revokeDB"
    /\ \E inj \in Inject : Run(revokeDBPublic(args.dbName), Operator, inj)
    /\ Goto("d_connect")
    /\ UNCHANGED <<other, raced, gen, env, args, credsFile, once, pgInstance, pools, callers, k,
                   dq, i, err, pool, tenantUsers, nextPw, runs, snap>>

\* pg.RunExec(conn, ctx, revokeSchemaPublic)
NewTenantDBRevokeSchemaPublic ==
    /\ pc = "d_revokeSchema"
    /\ \E inj \in Inject : Run(revokeSchemaPublic, pool.as, inj)
    /\ Goto("d_close")
    /\ UNCHANGED <<other, raced, gen, env, args, credsFile, once, pgInstance, pools, callers, k,
                   dq, i, err, pool, tenantUsers, nextPw, runs, snap>>

----------------------------------------------------------------------------
(* pg.go: NewTenantSchema *)

\* a NewTenantSchema that does not look at the database name
NewTenantSchemaBegin_NoCheck ==
    /\ pc = "nts"
    /\ err' = NoErr
    /\ pc' = "s1_connect"
    /\ UNCHANGED <<other, raced, gen, env, args, db, audit, credsFile, stderr, execLog, once,
                   pgInstance, pools, callers, k, dq, i, halted, pool,
                   tenantUsers, nextPw, budget, runs, snap>>

\* if connConfig.DBName == "" { return an error }
NewTenantSchemaBegin ==
    /\ pc = "nts"
    /\ IF args.dbName = ""
       THEN err' = "missing database name" /\ pc' = "return"
       ELSE err' = NoErr /\ pc' = "s1_connect"
    /\ UNCHANGED <<other, raced, gen, env, args, db, audit, credsFile, stderr, execLog, once,
                   pgInstance, pools, callers, k, dq, i, halted, pool,
                   tenantUsers, nextPw, budget, runs, snap>>

\* pg.RunExec(conn, ctx, dropSchema)
NewTenantSchemaDropSchema ==
    /\ pc = "s1_drop"
    /\ \E inj \in Inject : Run(dropSchema(args.schemaName), pool.as, inj)
    /\ Goto("s1_create")
    /\ UNCHANGED <<other, raced, gen, env, args, credsFile, once, pgInstance, pools, callers, k,
                   dq, i, err, pool, tenantUsers, nextPw, runs, snap>>

\* a closure that drops the error of CREATE SCHEMA like those of the others
NewTenantSchemaCreateSchema_ErrDropped ==
    /\ pc = "s1_create"
    /\ \E inj \in Inject : Run(createSchema(args.schemaName), pool.as, inj)
    /\ err' = NoErr
    /\ Goto("s1_revoke")
    /\ UNCHANGED <<other, raced, gen, env, args, credsFile, once, pgInstance, pools, callers, k,
                   dq, i, pool, tenantUsers, nextPw, runs, snap>>

\* _, err = pg.RunExec(conn, ctx, createSchema); on an error the closure returns
NewTenantSchemaCreateSchema ==
    /\ pc = "s1_create"
    /\ \E inj \in Inject :
         LET stmt == createSchema(args.schemaName) IN
         /\ Run(stmt, pool.as, inj)
         /\ IF Fails(stmt, pool.as, inj)
            THEN err' = "unable to create schema" /\ Goto("s1_close")
            ELSE err' = NoErr /\ Goto("s1_revoke")
    /\ UNCHANGED <<other, raced, gen, env, args, credsFile, once, pgInstance, pools, callers, k,
                   dq, i, pool, tenantUsers, nextPw, runs, snap>>

\* pg.RunExec(conn, ctx, revokeCreateOnSchema)
NewTenantSchemaRevokeCreate ==
    /\ pc = "s1_revoke"
    /\ \E inj \in Inject :
         Run(revokeCreateOnSchema(args.schemaName), pool.as, inj)
    /\ Goto("s1_close")
    /\ UNCHANGED <<other, raced, gen, env, args, credsFile, once, pgInstance, pools, callers, k,
                   dq, i, err, pool, tenantUsers, nextPw, runs, snap>>

\* DropTenantSchemaUsers, in the order the roles are dropped
schemaUserDrops(n) ==
    LET schemaUsers ==
          newTenantSchemaUserCredentials(roleNamePrefix, args.schemaName, n, {})
    IN << schemaUsers.ReadOnly.Username, schemaUsers.ReadWrite.Username,
          schemaUsers.Admin.Username >>

\* DropTenantSchemaGroups: the users, then the groups
schemaGroupDrops(n) ==
    schemaUserDrops(n)
      \o << schemaGroups.ReadOnly, schemaGroups.ReadWrite, schemaGroups.Admin >>

\* NewTenantSchemaGroups: pg.DropTenantSchemaGroups(ctx, roleNamePrefix, schemaName)
NewTenantSchemaGroupsBegin ==
    /\ pc = "groups"
    /\ dq' = schemaGroupDrops(nextPw)
    /\ nextPw' = nextPw + 3
    /\ k' = << "g_create" >>
    /\ i' = 1
    /\ pc' = "drop_probe"
    /\ UNCHANGED <<other, raced, gen, env, args, db, audit, credsFile, stderr, execLog, once,
                   pgInstance, pools, callers, err, halted, pool, tenantUsers,
                   budget, runs, snap>>

\* a NewTenantSchemaGroups that tries a failed CreateGroup a second time
NewTenantSchemaGroupsCreate_Retries ==
    /\ pc = "g_create"
    /\ \E inj \in Inject :
         LET stmt == createGroup(schemaGroups[TierOf(i)]) IN
         /\ Run(stmt, Operator, inj)
         /\ IF /\ Fails(stmt, Operator, inj)
               /\ \A n \in 1..Len(execLog) : execLog[n].sql # stmt.sql
            THEN i' = i /\ Goto("g_create")
            ELSE IF i < 3
                 THEN i' = i + 1 /\ Goto("g_create")
                 ELSE i' = 1 /\ Goto("grant_db")
    /\ UNCHANGED <<other, raced, gen, env, args, credsFile, once, pgInstance, pools, callers, k,
                   dq, err, pool, tenantUsers, nextPw, runs, snap>>

\* NewTenantSchemaGroups: pg.CreateGroup for Admin, ReadWrite, ReadOnly
NewTenantSchemaGroupsCreate ==
    /\ pc = "g_create"
    /\ \E inj \in Inject : Run(createGroup(schemaGroups[TierOf(i)]), Operator, inj)
    /\ IF i < 3
       THEN i' = i + 1 /\ Goto("g_create")
       ELSE i' = 1 /\ Goto("grant_db")
    /\ UNCHANGED <<other, raced, gen, env, args, credsFile, once, pgInstance, pools, callers, k,
                   dq, err, pool, tenantUsers, nextPw, runs, snap>>

\* pg.RunExec(pg.db, ctx, grantDBAccess)
NewTenantSchemaGrantDBAccess ==
    /\ pc = "grant_db"
    /\ \E inj \in Inject :
         Run(grantDBAccess(args.dbName, schemaGroups), Operator, inj)
    /\ Goto("s2_connect")
    /\ UNCHANGED <<other, raced, gen, env, args, credsFile, once, pgInstance, pools, callers, k,
                   dq, i, err, pool, tenantUsers, nextPw, runs, snap>>

\* a grant-wiring closure that returns the error of a failed grant
NewTenantSchemaGrant_Returns ==
    /\ pc = "s2_grant"
    /\ \E inj \in Inject :
         LET stmt == schemaGrants(args.schemaName, schemaGroups)[i] IN
         /\ Run(stmt, pool.as, inj)
         /\ IF Fails(stmt, pool.as, inj)
            THEN /\ err' = "unable to grant"
                 /\ i' = 1
                 /\ Goto("s2_close")
            ELSE /\ err' = err
                 /\ IF i < Len(schemaGrants(args.schemaName, schemaGroups))
                    THEN i' = i + 1 /\ Goto("s2_grant")
                    ELSE i' = 1 /\ Goto("s2_close")
    /\ UNCHANGED <<other, raced, gen, env, args, credsFile, once, pgInstance, pools, callers, k,
                   dq, pool, tenantUsers, nextPw, runs, snap>>

\* the i-th pg.RunExec(conn, ctx, ...) of the grant-wiring closure
NewTenantSchemaGrant ==
    /\ pc = "s2_grant"
    /\ \E inj \in Inject :
         Run(schemaGrants(args.schemaName, schemaGroups)[i], pool.as, inj)
    /\ IF i < Len(schemaGrants(args.schemaName, schemaGroups))
       THEN i' = i + 1 /\ Goto("s2_grant")
       ELSE i' = 1 /\ Goto("s2_close")
    /\ UNCHANGED <<other, raced, gen, env, args, credsFile, once, pgInstance, pools, callers, k,
                   dq, err, pool, tenantUsers, nextPw, runs, snap>>

\* NewTenantSchemaUsers: pg.DropTenantSchemaUsers(ctx, roleNamePrefix, schemaName)
NewTenantSchemaUsersBegin ==
    /\ pc = "users"
    /\ dq' = schemaUserDrops(nextPw)
    /\ nextPw' = nextPw + 3
    /\ k' = << "u_creds" >>
    /\ pc' = "drop_probe"
    /\ UNCHANGED <<other, raced, gen, env, args, db, audit, credsFile, stderr, execLog, once,
                   pgInstance, pools, callers, i, err, halted, pool,
                   tenantUsers, budget, runs, snap>>

\* NewTenantSchemaUsers: schemaUsers := newTenantSchemaUserCredentials(...)
\* which of the three draws fail: none, one, or all once the source is gone
EntropyFailures ==
    {{}, {"Admin"}, {"ReadWrite"}, {"ReadOnly"}, {"Admin", "ReadWrite", "ReadOnly"}}

NewTenantSchemaUsersCredentials ==
    /\ pc = "u_creds"
    /\ \E noEntropy \in EntropyFailures :
         /\ noEntropy # {} => budget > 0
         /\ budget' = IF noEntropy # {} THEN budget - 1 ELSE budget
         /\ tenantUsers' =
              newTenantSchemaUserCredentials(roleNamePrefix, args.schemaName,
                                             nextPw, noEntropy)
    /\ nextPw' = nextPw + 3
    /\ i' = 1
    /\ pc' = "u_create"
    /\ UNCHANGED <<other, raced, gen, env, args, db, audit, credsFile, stderr, execLog, once,
                   pgInstance, pools, callers, k, dq, err, halted, pool,
                   runs, snap>>

\* a CreateUser whose first statement is the grant of the group
CreateUserCreate_GrantFirst ==
    /\ pc = "u_create"
    /\ \E inj \in Inject :
         Run(grantGroup(schemaGroups[TierOf(i)], tenantUsers[TierOf(i)].Username),
             Operator, inj)
    /\ Goto("u_grant")
    /\ UNCHANGED <<other, raced, gen, env, args, credsFile, once, pgInstance, pools, callers, k,
                   dq, i, err, pool, tenantUsers, nextPw, runs, snap>>

\* CreateUser: _, err = pg.RunExec(pg.db, ctx, createUser)
CreateUserCreate ==
    /\ pc = "u_create"
    /\ \E inj \in Inject : Run(createUser(tenantUsers[TierOf(i)]), Operator, inj)
    /\ Goto("u_grant")
    /\ UNCHANGED <<other, raced, gen, env, args, credsFile, once, pgInstance, pools, callers, k,
                   dq, i, err, pool, tenantUsers, nextPw, runs, snap>>

\* CreateUser: _, err = pg.RunExec(pg.db, ctx, grantGroup); the caller drops err
CreateUserGrant ==
    /\ pc = "u_grant"
    /\ \E inj \in Inject :
         Run(grantGroup(schemaGroups[TierOf(i)], tenantUsers[TierOf(i)].Username),
             Operator, inj)
    /\ IF i < 3
       THEN i' = i + 1 /\ Goto("u_create")
       ELSE i' = 1 /\ Goto("emit")
    /\ UNCHANGED <<other, raced, gen, env, args, credsFile, once, pgInstance, pools, callers, k,
                   dq, err, pool, tenantUsers, nextPw, runs, snap>>

\* a NewTenantSchema that returns the error of the credentials write
NewTenantSchemaEmit_Fatal ==
    /\ pc = "emit"
    /\ IF env.outCredsFile # ""
       THEN \E inj \in Inject :
              /\ Spend(inj)
              /\ IF inj
                 THEN /\ stderr' = Append(stderr,
                           [by |-> "NewTenantSchema",
                            text |-> "unable to write tenant users data"])
                      /\ credsFile' = credsFile
                      /\ err' = "unable to write tenant users data"
                 ELSE /\ stderr' = stderr
                      /\ credsFile' = << tenantUsers >>
                      /\ err' = err
       ELSE UNCHANGED <<budget, stderr, credsFile, err>>
    /\ pc' = "return"
    /\ UNCHANGED <<other, raced, gen, env, args, db, audit, execLog, once, pgInstance, pools,
                   callers, k, dq, i, halted, pool, tenantUsers, nextPw,
                   runs, snap>>

\* the credentials: json.Marshal and os.WriteFile when the file is named; an
\* error of the write is printed
NewTenantSchemaEmit ==
    /\ pc = "emit"
    /\ IF env.outCredsFile # ""
       THEN \E inj \in Inject :
              /\ Spend(inj)
              /\ IF inj
                 THEN /\ stderr' = Append(stderr,
                           [by |-> "NewTenantSchema",
                            text |-> "unable to write tenant users data"])
                      /\ credsFile' = credsFile
                 ELSE /\ stderr' = stderr
                      /\ credsFile' = << tenantUsers >>
       ELSE UNCHANGED <<budget, stderr, credsFile>>
    /\ pc' = "return"
    /\ UNCHANGED <<other, raced, gen, env, args, db, audit, execLog, once, pgInstance, pools,
                   callers, k, dq, i, err, halted, pool, tenantUsers, nextPw,
                   runs, snap>>

----------------------------------------------------------------------------
(* The same command line once more, in a new process, after a run in which *)
(* nothing failed.                                                         *)

Clean ==
    /\ pc = "done"
    /\ err = NoErr
    /\ \A n \in 1..Len(execLog) : execLog[n].ok
    /\ stderr = << >>

NextProcess ==
    /\ Clean
    /\ runs < MaxRuns
    /\ snap' = Summary(db)
    /\ stderr' = << >>
    /\ execLog' = << >>
    /\ once' = "new"
    /\ pgInstance' = NilInstance
    /\ pools' = 0
    /\ callers' = [c \in 1..MaxConnects |-> IdleCaller]
    /\ pc' = "main"
    /\ k' = << >>
    /\ dq' = << >>
    /\ i' = 1
    /\ err' = NoErr
    /\ halted' = FALSE
    /\ pool' = NoPool
    /\ tenantUsers' = NoUsers
    /\ UNCHANGED <<other, raced, gen, env, args, db, audit, credsFile, nextPw, budget, runs>>

----------------------------------------------------------------------------

Next ==
    \/ \E c \in 1..MaxConnects : ConnectEnter(c)
    \/ \E c \in 1..MaxConnects : ConnectInit(c)
    \/ \E c \in 1..MaxConnects : ConnectReturn(c)
    \/ Main
    \/ Return
    \/ \E ph \in Phases : ConnectDB(ph)
    \/ \E ph \in Phases : Acquire(ph)
    \/ \E ph \in Phases : AfterConnect(ph)
    \/ \E ph \in Phases : BeforeCloseReset(ph)
    \/ \E ph \in Phases : BeforeCloseMarker(ph)
    \/ DropRoleProbe
    \/ DropRoleOwned
    \/ DropRoleDrop
    \/ DropDBProbe
    \/ DropDBAlter
    \/ DropDBDrop
    \/ NewTenantDBBegin
    \/ NewTenantDBCreateOwner
    \/ NewTenantDBCreateDB
    \/ NewTenantDBAlterDB
    \/ NewTenantDBRevokeDBPublic
    \/ NewTenantDBRevokeSchemaPublic
    \/ NewTenantSchemaBegin
    \/ NewTenantSchemaDropSchema
    \/ NewTenantSchemaCreateSchema
    \/ NewTenantSchemaRevokeCreate
    \/ NewTenantSchemaGroupsBegin
    \/ NewTenantSchemaGroupsCreate
    \/ NewTenantSchemaGrantDBAccess
    \/ NewTenantSchemaGrant
    \/ NewTenantSchemaUsersBegin
    \/ NewTenantSchemaUsersCredentials
    \/ CreateUserCreate
    \/ CreateUserGrant
    \/ NewTenantSchemaEmit
    \/ ConnectAgain

Spec == Init /\ [][Next]_vars

\* the command run up to MaxRuns times in succession, nothing failing but
\* what the state of the cluster makes fail
InitTwice ==
    /\ env \in Envs
    /\ \E s \in Scenarios : args = s.args /\ db = s.db
    /\ audit = << >>
    /\ credsFile = << >>
    /\ ProcessStart
    /\ nextPw = 0
    /\ budget = 0
    /\ runs = 0
    /\ snap = NoSnap
    /\ gen = NoCall
    /\ other = NoProcess
    /\ raced = FALSE

NextTwice == Next \/ NextProcess

SpecTwice == InitTwice /\ [][NextTwice]_vars

\* the command lines the names are derived from: database name, schema name
\* and tenant name, with parts that contain the separator and the suffixes
NameInputs ==
    { <<"acme", "billing", "">>, <<"a", "b_c", "">>, <<"a_b", "c", "">>,
      <<"acme", "owner", "">>, <<"acme", "ro", "rw">>,
      <<"acme", "rw_grp", "t_ro">>, <<"db", "schadm_usr", "a_owner">> }

NameScenarios ==
    { [ args |-> Args("create-schema", n[1], n[2], n[3], ""),
        db |-> WithDB(IF n[3] = "" THEN n[1] ELSE n[3]) ] : n \in NameInputs }

\* the command run up to MaxRuns times on each of these command lines
InitNames ==
    /\ env \in Envs
    /\ \E s \in Scenarios \cup NameScenarios : args = s.args /\ db = s.db
    /\ audit = << >>
    /\ credsFile = << >>
    /\ ProcessStart
    /\ nextPw = 0
    /\ budget = 0
    /\ runs = 0
    /\ snap = NoSnap
    /\ gen = NoCall
    /\ other = NoProcess
    /\ raced = FALSE

SpecNames == InitNames /\ [][NextTwice]_vars

\* the program built with helpers.go, run up to MaxRuns times
InitHelpers ==
    /\ env \in HelpersEnvs
    /\ \E s \in Scenarios : args = s.args /\ db = s.db
    /\ audit = << >>
    /\ credsFile = << >>
    /\ ProcessStart
    /\ nextPw = 0
    /\ budget = 0
    /\ runs = 0
    /\ snap = NoSnap
    /\ gen = NoCall
    /\ other = NoProcess
    /\ raced = FALSE

SpecHelpers == InitHelpers /\ [][NextTwice]_vars

----------------------------------------------------------------------------
(* part_002: a call of GenerateRandomPassword on its own.  The password    *)
(* is followed by the number of bytes written, gen.i, and the byte written *)
(* last, gen.byte.                                                         *)

Lengths == -1..MaxLength

\* values of ExcludeSpecial: none, the default of the struct tag, all the
\* digits, one character of each class, all the special characters
Excludes ==
    { << >>, << "@", "/" >>, numbers, << "!", "a", "0" >>, specialChars }

PasswordConfigs ==
    { PasswordConfig(l, ul, us, un, ex) :
        l \in Lengths, ul \in BOOLEAN, us \in BOOLEAN, un \in BOOLEAN,
        ex \in Excludes }

InitPassword ==
    /\ env = [haltOnError |-> "", outSQLFile |-> "", outCredsFile |-> "",
              helpers |-> "part_002"]
    /\ args = Args("create-schema", "acme", "billing", "", "")
    /\ db = Fresh
    /\ audit = << >>
    /\ credsFile = << >>
    /\ ProcessStart
    /\ nextPw = 0
    /\ budget = 0
    /\ runs = 0
    /\ snap = NoSnap
    /\ other = NoProcess
    /\ raced = FALSE
    /\ \E config \in PasswordConfigs : gen = [NoCall EXCEPT !.pc = "call",
                                                            !.config = config]

programVars ==
    <<env, args, db, audit, credsFile, stderr, execLog, once, pgInstance,
      pools, callers, pc, k, dq, i, err, halted, pool, tenantUsers, nextPw,
      budget, runs, snap, other, raced>>

\* lines 75-108: charset is built, Length gets its default, the password is
\* made; make panics on a negative length
GenerateRandomPasswordBegin ==
    /\ gen.pc = "call"
    /\ gen' = [gen EXCEPT !.charset = charsetOf(gen.config),
                          !.length = lengthOf(gen.config),
                          !.pc = IF lengthOf(gen.config) < 0 THEN "panic"
                                                             ELSE "loop"]
    /\ UNCHANGED programVars

\* lines 105-111: one turn of the loop; rand.Int gives an index into charset
\* or an error, on which "" is returned with the error
GenerateRandomPasswordDraw ==
    /\ gen.pc = "loop"
    /\ gen.i < gen.length
    /\ \/ \E randomIndex \in 0..(Len(gen.charset) - 1) :
             gen' = [gen EXCEPT !.byte = gen.charset[randomIndex + 1],
                                !.i = @ + 1]
       \/ gen' = [gen EXCEPT !.pc = "returned", !.i = 0, !.byte = "",
                              !.err = "unable to generate random index"]
    /\ UNCHANGED programVars

\* line 113: return string(password), nil
GenerateRandomPasswordReturn ==
    /\ gen.pc = "loop"
    /\ gen.i = gen.length
    /\ gen' = [gen EXCEPT !.pc = "returned"]
    /\ UNCHANGED programVars

NextPassword ==
    \/ GenerateRandomPasswordBegin
    \/ GenerateRandomPasswordDraw
    \/ GenerateRandomPasswordReturn

SpecPassword == InitPassword /\ [][NextPassword]_vars

----------------------------------------------------------------------------
(* Two processes of create-schema for the same database, schema and tenant *)
(* key against one cluster.  Neither Connect nor NewTenantSchema takes a   *)
(* lock and RunExec runs every statement in a transaction of its own, so   *)
(* the two interleave at the statements: the process that runs is held in  *)
(* the variables, the one that waits in other.                             *)

ThisProcess ==
    Process(pc, k, dq, i, err, halted, pool, tenantUsers, pgInstance, once,
            pools, callers, stderr, execLog)

\* the process is between the start of its command and the end of it
InCommand(p) == p \notin {"none", "main", "done", "exit", "panic"}

Ended(p) == p \in {"done", "exit", "panic"}

\* the process is in NewTenantSchemaUsers: the teardown of the login users
\* (existence probe, DROP OWNED, DROP ROLE), the credentials, CreateUser
InUsers(p, cont) ==
    \/ p \in {"users", "u_creds", "u_create", "u_grant", "emit"}
    \/ p \in {"drop_probe", "drop_owned", "drop_role"} /\ cont = << "u_creds" >>

\* the scheduler takes the running process off and puts the waiting one on.
\* The interleavings followed are those of the statements of
\* NewTenantSchemaUsers and of whole commands: a process is taken off while
\* it is in NewTenantSchemaUsers, or when it has ended.  The commands overlap
\* when the one put on is in the middle of its own.
Switch ==
    /\ InUsers(pc, k) \/ Ended(pc)
    /\ other.pc # "none"
    /\ ~Ended(other.pc)
    /\ other' = ThisProcess
    /\ pc' = other.pc
    /\ k' = other.k
    /\ dq' = other.dq
    /\ i' = other.i
    /\ err' = other.err
    /\ halted' = other.halted
    /\ pool' = other.pool
    /\ tenantUsers' = other.tenantUsers
    /\ pgInstance' = other.pgInstance
    /\ once' = other.once
    /\ pools' = other.pools
    /\ callers' = other.callers
    /\ stderr' = other.stderr
    /\ execLog' = other.execLog
    /\ raced' = (raced \/ InCommand(other.pc))
    /\ UNCHANGED <<gen, env, args, db, audit, credsFile, nextPw, budget, runs,
                   snap>>

\* the credentials file is named, the audit file is not
ConcurrentEnvs ==
    { [e EXCEPT !.outSQLFile = ""] : e \in {x \in Envs : x.outCredsFile # ""} }

\* create-schema for database acme, schema billing: over a cluster that has
\* the database only, and over a provisioned one
ConcurrentScenarios ==
    { s \in Scenarios : /\ s.args.cmd = "create-schema"
                        /\ s.args.dbName = "acme"
                        /\ s.args.tenantName = "" }

InitConcurrent ==
    /\ env \in ConcurrentEnvs
    /\ \E s \in ConcurrentScenarios : args = s.args /\ db = s.db
    /\ audit = << >>
    /\ credsFile = << >>
    /\ ProcessStart
    /\ nextPw = 0
    /\ budget = 0
    /\ runs = 0
    /\ snap = NoSnap
    /\ gen = NoCall
    /\ other = ProcessAtStart
    /\ raced = FALSE

NextConcurrent ==
    \/ \E c \in 1..MaxConnects : ConnectEnter(c)
    \/ \E c \in 1..MaxConnects : ConnectInit(c)
    \/ \E c \in 1..MaxConnects : ConnectReturn(c)
    \/ Main
    \/ Return
    \/ \E ph \in Phases : ConnectDB(ph)
    \/ \E ph \in Phases : Acquire(ph)
    \/ \E ph \in Phases : AfterConnect(ph)
    \/ \E ph \in Phases : BeforeCloseReset(ph)
    \/ \E ph \in Phases : BeforeCloseMarker(ph)
    \/ DropRoleProbe
    \/ DropRoleOwned
    \/ DropRoleDrop
    \/ NewTenantSchemaBegin
    \/ NewTenantSchemaDropSchema
    \/ NewTenantSchemaCreateSchema
    \/ NewTenantSchemaRevokeCreate
    \/ NewTenantSchemaGroupsBegin
    \/ NewTenantSchemaGroupsCreate
    \/ NewTenantSchemaGrantDBAccess
    \/ NewTenantSchemaGrant
    \/ NewTenantSchemaUsersBegin
    \/ NewTenantSchemaUsersCredentials
    \/ CreateUserCreate
    \/ CreateUserGrant
    \/ NewTenantSchemaEmit
    \/ Switch

SpecConcurrent == InitConcurrent /\ [][NextConcurrent]_vars

----------------------------------------------------------------------------
(* What the properties below speak of *)

Tiers == {"Admin", "ReadWrite", "ReadOnly"}

\* the statement sql was handed to RunExec in this run
Executed(sql) == \E n \in 1..Len(execLog) : execLog[n].sql = sql

\* a statement handed to RunExec in this run failed
SomeFailed == \E n \in 1..Len(execLog) : ~execLog[n].ok

\* the roles NewTenantSchema manages for the schema of the command line
SchemaRoles ==
    {schemaGroups[t] : t \in Tiers}
      \cup {newTenantSchemaUserCredentials(roleNamePrefix, args.schemaName,
                                           0, {})[t].Username : t \in Tiers}

----------------------------------------------------------------------------
(* C1  Idempotence of NewTenantSchema.  In a process that runs create-     *)
(* schema again, with the same parameters, over the cluster a run without  *)
(* a failure has left, no statement fails, the command returns no error,   *)
(* and the cluster ends with the roles, the memberships and the privileges *)
(* it had when the process began; the login roles are the same ones, each  *)
(* with a password that is not the one it had.                             *)
C1_Idempotent ==
    (args.cmd = "create-schema" /\ snap # NoSnap) =>
        /\ ~SomeFailed
        /\ ~halted
        /\ pc = "done" =>
             /\ err = NoErr
             /\ Summary(db).roles = snap.roles
             /\ Summary(db).member = snap.member
             /\ Summary(db).grants = snap.grants
             /\ {l[1] : l \in db.login} = {l[1] : l \in snap.login}
             /\ db.login \cap snap.login = {}

\* the second run of create-schema has returned, over the same cluster state
C1_Witness ==
    /\ args.cmd = "create-schema"
    /\ snap # NoSnap
    /\ pc = "done"
    /\ runs >= 2
    /\ Len(execLog) > 0
    /\ Summary(db).grants = snap.grants
    /\ SchemaRoles \subseteq db.roles

----------------------------------------------------------------------------
(* C2  Teardown safety.  DropRole deletes no object: an object that exists *)
(* before a statement of DropRole exists after it; the objects of the role *)
(* being dropped end with that role or with the operator; and no object    *)
(* is ever owned by a role that does not exist, so that a role is dropped  *)
(* only when everything it owned has been handed to the operator.          *)
C2_TeardownSafe ==
    [][ /\ pc \in {"drop_owned", "drop_role"} =>
             \A o \in Objs : db.objOwner[o] # NoRole => db'.objOwner[o] # NoRole
        /\ pc \in {"drop_owned", "drop_role"} =>
             \A o \in Objs :
                 db.objOwner[o] = Head(dq) =>
                     db'.objOwner[o] \in {Head(dq), pgInstance.roleName}
        /\ \A o \in Objs :
               db'.objOwner[o] # NoRole => db'.objOwner[o] \in db'.roles
      ]_vars

\* DROP ROLE has just removed a role whose object now is the operator's
C2_Witness ==
    /\ Len(execLog) > 0
    /\ \E r \in SchemaRoles \cup {ownerRole} :
         /\ execLog[Len(execLog)] = [sql |-> dropRole(r).sql, ok |-> TRUE]
         /\ r \notin db.roles
         /\ Executed(dropOwnedByRole(r, Operator).sql)
    /\ db.objOwner["here"] = Operator

----------------------------------------------------------------------------
(* C3  DropRole and DropDB on an absent target.  When the probe answers    *)
(* that the role (the database) does not exist, because it does not or     *)
(* because the query failed, the operation hands no statement to RunExec,  *)
(* writes nothing to the audit file, leaves the cluster as it is, and is   *)
(* over; the statements of DropRole and DropDB are reached only from a     *)
(* probe.                                                                  *)
C3_NoOpOnAbsent ==
    [][ /\ (pc = "drop_probe" /\ (Head(dq) \notin db.roles \/ stderr' # stderr)) =>
             /\ execLog' = execLog
             /\ audit' = audit
             /\ db' = db
             /\ dq' = Tail(dq)
             /\ pc' \notin {"drop_owned", "drop_role"}
        /\ (pc = "db_probe" /\ (db.dbOwner = NoRole \/ stderr' # stderr)) =>
             /\ execLog' = execLog
             /\ audit' = audit
             /\ db' = db
             /\ pc' \notin {"db_alter", "db_drop"}
        /\ (pc' = "drop_owned" /\ pc # pc') => pc = "drop_probe"
        /\ (pc' = "db_alter" /\ pc # pc') => pc = "db_probe"
      ]_vars

\* create-database on a cluster that has neither the database nor the owner:
\* DropDB and DropRole have returned and nothing was run or written
C3_Witness ==
    /\ args.cmd = "create-database"
    /\ env.outSQLFile # ""
    /\ pc = "d_createOwner"
    /\ execLog = << >>
    /\ audit = << >>
    /\ db = Fresh

----------------------------------------------------------------------------
(* C4  A failure of CREATE SCHEMA stops the run, with or without halt-on-  *)
(* error.  Once CREATE SCHEMA has failed, the only statement RunExec is    *)
(* still handed is the RESET ROLE of the closing connection: no group role *)
(* is created, no grant is issued, no login user is created; no            *)
(* credentials are written; and the process has exited in RunExec or the   *)
(* command returns an error.                                               *)
C4_CreateSchemaFailureStops ==
    \A n \in 1..Len(execLog) :
        execLog[n] = [sql |-> createSchema(args.schemaName).sql, ok |-> FALSE] =>
            /\ \A m \in (n + 1)..Len(execLog) : execLog[m].sql = resetRole.sql
            /\ tenantUsers = NoUsers
            /\ credsFile = << >>
            /\ halted \/ err # NoErr
            /\ pc \in {"exit", "s1_close", "s1_closing", "return", "done"}

\* without halt-on-error, the command has returned after a failed CREATE SCHEMA
C4_Witness ==
    /\ env.haltOnError = ""
    /\ env.outCredsFile # ""
    /\ pc = "done"
    /\ Len(execLog) >= 4
    /\ execLog[3] = [sql |-> createSchema(args.schemaName).sql, ok |-> FALSE]
    /\ execLog[Len(execLog)].sql = resetRole.sql

----------------------------------------------------------------------------
(* C5  Halt-on-error.  With PG_TENANT_SETUP_HALT_ON_ERROR set, no          *)
(* statement is handed to RunExec after one that failed: a failed          *)
(* statement is the last of the run, and the process has exited.           *)
C5_HaltStopsAtFirstFailure ==
    env.haltOnError # "" =>
        \A n \in 1..Len(execLog) :
            ~execLog[n].ok => (n = Len(execLog) /\ halted /\ pc = "exit")

\* the process has exited on a statement that failed after others had run
C5_Witness ==
    /\ env.haltOnError # ""
    /\ halted
    /\ pc = "exit"
    /\ Len(execLog) > 1
    /\ ~execLog[Len(execLog)].ok
    /\ stderr # << >>

----------------------------------------------------------------------------
(* C6  Best effort.  Without halt-on-error, when a statement of the grant  *)
(* wiring has failed and the command has returned without a connection     *)
(* error, it has returned no error, the credentials of the three users     *)
(* have been generated, CREATE ROLE and GRANT have been handed to RunExec  *)
(* for each of them, the users exist with their groups when no other       *)
(* statement failed, and the credentials are in the credentials file when  *)
(* one is named and the write did not fail.                                *)
GrantWiring ==
    {grantDBAccess(args.dbName, schemaGroups).sql}
      \cup {schemaGrants(args.schemaName, schemaGroups)[j].sql : j \in 1..10}

GrantFailed ==
    \E n \in 1..Len(execLog) : ~execLog[n].ok /\ execLog[n].sql \in GrantWiring

OnlyGrantsFailed ==
    \A n \in 1..Len(execLog) : ~execLog[n].ok => execLog[n].sql \in GrantWiring

WriteFailed ==
    \E n \in 1..Len(stderr) : stderr[n].by = "NewTenantSchema"

C6_BestEffortGoesOn ==
    ( /\ env.haltOnError = ""
      /\ pc = "done"
      /\ GrantFailed
      /\ err \notin {"unable to connect to database",
                     "unable to acquire connection"} ) =>
        /\ err = NoErr
        /\ tenantUsers # NoUsers
        /\ \A t \in Tiers :
             /\ Executed(createUser(tenantUsers[t]).sql)
             /\ Executed(grantGroup(schemaGroups[t], tenantUsers[t].Username).sql)
        /\ OnlyGrantsFailed =>
             \A t \in Tiers :
                 /\ <<tenantUsers[t].Username, tenantUsers[t].Password>> \in db.login
                 /\ <<schemaGroups[t], tenantUsers[t].Username>> \in db.member
        /\ (env.outCredsFile # "" /\ ~WriteFailed) => credsFile = << tenantUsers >>

\* a grant failed, the command returned nil and the credentials were written
C6_Witness ==
    /\ env.haltOnError = ""
    /\ env.outCredsFile # ""
    /\ pc = "done"
    /\ err = NoErr
    /\ GrantFailed
    /\ credsFile = << tenantUsers >>
    /\ \A t \in Tiers : tenantUsers[t].Username \in db.roles

----------------------------------------------------------------------------
(* C7  Without halt-on-error, every statement that failed is logged: it is *)
(* on stderr or in the audit file from the step after its failure on.      *)
C7_FailuresLogged ==
    env.haltOnError = "" =>
        \A n \in 1..Len(execLog) :
            ~execLog[n].ok =>
                \/ \E m \in 1..Len(stderr) : stderr[m].text = execLog[n].sql
                \/ \E m \in 1..Len(audit) : audit[m] = SqlLine(execLog[n].sql)

----------------------------------------------------------------------------
(* C8  With an audit file named, the statements in the audit file are, in  *)
(* order, the statements handed to RunExec, those that failed included,    *)
(* with or without halt-on-error.                                          *)
AuditStatements == SelectSeq(audit, LAMBDA l : l.kind = "sql")

C8_AuditIsExecLog ==
    env.outSQLFile # "" =>
        AuditStatements = [n \in 1..Len(execLog) |-> SqlLine(execLog[n].sql)]

----------------------------------------------------------------------------
(* C9  Connect returns a non-nil error when it has no instance to return:  *)
(* no call of Connect returns (nil, nil).                                  *)
C9_ConnectNeverNilNil ==
    \A c \in 1..MaxConnects :
        (callers[c].st = "returned" /\ callers[c].nil) => callers[c].err # NoErr

----------------------------------------------------------------------------
(* C10  The root pool is a singleton.  A process opens at most one root    *)
(* pool, whatever the number and the interleaving of the calls of Connect, *)
(* and every call that has returned has returned the one instance          *)
(* pgInstance holds.                                                       *)
C10_RootPoolSingleton ==
    /\ pools <= 1
    /\ \A c \in 1..MaxConnects :
         callers[c].st = "returned" =>
             /\ callers[c].inst = pgInstance.id
             /\ callers[c].nil = pgInstance.nil
    /\ \A c, d \in 1..MaxConnects :
         (callers[c].st = "returned" /\ callers[d].st = "returned") =>
             callers[c].inst = callers[d].inst

\* every caller has returned, with the instance of the only pool
C10_Witness ==
    /\ MaxConnects >= 2
    /\ pools = 1
    /\ \A c \in 1..MaxConnects :
         /\ callers[c].st = "returned"
         /\ ~callers[c].nil
         /\ callers[c].inst = 1

----------------------------------------------------------------------------
(* C11  Every connection of a scoped pool runs RESET ROLE before it        *)
(* closes, whether or not a role was requested: when the connection of the *)
(* scoped pool closes, the last statement handed to RunExec is RESET ROLE; *)
(* and when a role was requested, the connection is in use only after      *)
(* SET ROLE <role> was the last statement run, successfully.               *)
C11_ResetRoleBeforeClose ==
    [][ /\ (pool.st = "conn" /\ pool'.st = "none") =>
             /\ Len(execLog) > 0
             /\ execLog[Len(execLog)].sql = resetRole.sql
        /\ (pool.st # "conn" /\ pool'.st = "conn" /\ connRoleName # "") =>
             /\ Len(execLog') > 0
             /\ execLog'[Len(execLog')] =
                  [sql |-> setRole(connRoleName).sql, ok |-> TRUE]
      ]_vars

----------------------------------------------------------------------------
(* C12  Scoped connections are released on every exit path: when the run   *)
(* has ended, by a return of the command or by an exit of the process      *)
(* under halt-on-error, no scoped pool holds a connection.                 *)
C12_ScopedReleasedAtEnd ==
    pc \in {"done", "exit", "return"} => pool = NoPool

----------------------------------------------------------------------------
(* C13  Cleanup of the structural steps of NewTenantDB.                    *)

\* the step that is being taken handed a statement to RunExec and it failed
StepFailed ==
    /\ Len(execLog') = Len(execLog) + 1
    /\ ~execLog'[Len(execLog')].ok

TeardownAfterStructuralFailure ==
    /\ (pc = "d_createDB" /\ StepFailed) =>
         /\ pc' = "drop_probe"
         /\ dq' = << ownerRole >>
         /\ k' = << "return" >>
    /\ (pc = "d_alterDB" /\ StepFailed) =>
         /\ pc' = "db_probe"
         /\ dq' = << ownerRole >>
         /\ k' = << "drop_probe", "return" >>
    /\ (pc' = "return" /\ pc # "return"
          /\ err' \in {"unable to create database",
                       "unable to set database owner"}) =>
         pc \in {"drop_probe", "drop_role"}

(* C13: whenever CREATE DATABASE fails, DropRole of the owner              *)
(* role is called next, and whenever ALTER DATABASE ... OWNER fails,       *)
(* DropDB and then DropRole are called next, before NewTenantDB returns,   *)
(* with or without halt-on-error.                                          *)
C13_CleanupAlways == [][TeardownAfterStructuralFailure]_vars

----------------------------------------------------------------------------
(* C14  NewTenantDB runs its structural steps in order and each is fatal.  *)
(* CREATE DATABASE is handed to RunExec only after CREATE ROLE of the      *)
(* owner succeeded, ALTER DATABASE ... OWNER only after CREATE DATABASE    *)
(* succeeded, the revokes from PUBLIC only after the owner was set.  Once  *)
(* one of the three has failed, none of these statements follows and the   *)
(* process has exited or NewTenantDB returns an error; when none of the    *)
(* three failed, a failed revoke included, NewTenantDB returns no error    *)
(* but that of a connection.                                               *)
Structural ==
    { createGroup(ownerRole).sql, createDB(args.dbName).sql,
      alterDB(args.dbName, ownerRole).sql }

Revokes == { revokeDBPublic(args.dbName).sql, revokeSchemaPublic.sql }

OkBefore(sql, n) ==
    \E m \in 1..(n - 1) : execLog[m] = [sql |-> sql, ok |-> TRUE]

StructuralFailed ==
    \E n \in 1..Len(execLog) : ~execLog[n].ok /\ execLog[n].sql \in Structural

C14_StructuralStepsInOrder ==
    args.cmd = "create-database" =>
        /\ \A n \in 1..Len(execLog) :
             LET e == execLog[n] IN
             /\ e.sql = createDB(args.dbName).sql =>
                  OkBefore(createGroup(ownerRole).sql, n)
             /\ e.sql = alterDB(args.dbName, ownerRole).sql =>
                  OkBefore(createDB(args.dbName).sql, n)
             /\ e.sql \in Revokes =>
                  OkBefore(alterDB(args.dbName, ownerRole).sql, n)
             /\ (~e.ok /\ e.sql \in Structural) =>
                  /\ halted \/ err # NoErr
                  /\ \A m \in (n + 1)..Len(execLog) :
                       execLog[m].sql \notin Structural \cup Revokes
        /\ (pc \in {"return", "done"} /\ ~StructuralFailed) =>
             err \in {NoErr, "unable to create connection pool",
                      "unable to acquire connection"}

\* NewTenantDB has returned nil although a revoke failed
C14_Witness ==
    /\ args.cmd = "create-database"
    /\ pc = "done"
    /\ err = NoErr
    /\ \E n \in 1..Len(execLog) : ~execLog[n].ok /\ execLog[n].sql \in Revokes
    /\ Executed(revokeSchemaPublic.sql)

----------------------------------------------------------------------------
(* C15  Halt-on-error makes a failure of the credentials write fatal: with *)
(* halt-on-error set and a credentials file named, NewTenantSchema does    *)
(* not return after the write of the credentials failed.                   *)
C15_HaltEscalatesWriteFailure ==
    (env.haltOnError # "" /\ env.outCredsFile # "" /\ WriteFailed) =>
        pc \notin {"return", "done"}

----------------------------------------------------------------------------
(* C16  Without halt-on-error a failure of the credentials write is not    *)
(* fatal: the step that fails prints the error, changes nothing in the     *)
(* cluster and leaves the credentials file as it was, and NewTenantSchema  *)
(* then returns nil, the cluster still unchanged.                          *)
C16_WriteFailureNotFatal ==
    [][ /\ (env.haltOnError = "" /\ pc = "emit" /\ stderr' # stderr) =>
             /\ stderr'[Len(stderr')].by = "NewTenantSchema"
             /\ db' = db
             /\ credsFile' = credsFile
             /\ err' = NoErr
             /\ pc' = "return"
        /\ (env.haltOnError = "" /\ pc = "return" /\ WriteFailed
              /\ args.cmd = "create-schema") =>
             /\ pc' = "done"
             /\ err' = NoErr
             /\ db' = db
             /\ stderr' = stderr
      ]_vars

\* the command has returned nil after a failed write; the users are there
C16_Witness ==
    /\ env.haltOnError = ""
    /\ WriteFailed
    /\ pc = "done"
    /\ err = NoErr
    /\ credsFile = << >>
    /\ tenantUsers # NoUsers
    /\ \A t \in Tiers :
         <<tenantUsers[t].Username, tenantUsers[t].Password>> \in db.login

----------------------------------------------------------------------------
(* C17  Entropy failure while the credentials of the three users are      *)
(* built.                                                                  *)

\* a draw of the credentials in hand failed
EntropyFailed ==
    /\ tenantUsers # NoUsers
    /\ \E t \in Tiers : tenantUsers[t].Password = EmptyPassword

\* C17: when GenerateRandomPassword fails while the credentials are built,
\* the run does not complete without an error, no login role is created with
\* the empty password, and no credential with the empty password is written
\* out.
C17_EntropyFailureIsFatal ==
    /\ \A l \in db.login : l[2] # EmptyPassword
    /\ \A n \in 1..Len(credsFile) :
         \A t \in Tiers : credsFile[n][t].Password # EmptyPassword
    /\ (pc = "done" /\ EntropyFailed) => err # NoErr

----------------------------------------------------------------------------
(* C18  The names are derived from the tenant key and the schema name.     *)

\* the tenant key: the tenant name, or the database name in its place
Key == IF args.tenantName = "" THEN args.dbName ELSE args.tenantName

ExpectedOwner == Key \o "_owner"

ExpectedGroups ==
    [ Admin     |-> Key \o "_" \o args.schemaName \o "_schadm_grp",
      ReadWrite |-> Key \o "_" \o args.schemaName \o "_rw_grp",
      ReadOnly  |-> Key \o "_" \o args.schemaName \o "_ro_grp" ]

ExpectedUsers ==
    [ Admin     |-> Key \o "_" \o args.schemaName \o "_schadm_usr",
      ReadWrite |-> Key \o "_" \o args.schemaName \o "_rw_usr",
      ReadOnly  |-> Key \o "_" \o args.schemaName \o "_ro_usr" ]

ExpectedNames ==
    {ExpectedOwner} \cup {ExpectedGroups[t] : t \in Tiers}
                    \cup {ExpectedUsers[t] : t \in Tiers}

\* the names of the example: database acme, schema billing, no tenant name
AcmeBillingGroups ==
    [ Admin     |-> "acme_billing_schadm_grp",
      ReadWrite |-> "acme_billing_rw_grp",
      ReadOnly  |-> "acme_billing_ro_grp" ]

AcmeBillingUsers ==
    [ Admin     |-> "acme_billing_schadm_usr",
      ReadWrite |-> "acme_billing_rw_usr",
      ReadOnly  |-> "acme_billing_ro_usr" ]

IsAcmeBilling ==
    /\ args.cmd = "create-schema"
    /\ args.dbName = "acme"
    /\ args.schemaName = "billing"
    /\ args.tenantName = ""

\* C18: in every run of the command, whatever the cluster holds, the owner is
\* {key}_owner, the groups are {key}_{schema}_schadm_grp, _rw_grp and _ro_grp
\* and the users the same with _usr, the key being the tenant name or, when
\* that is empty, the database name: every role a step creates or drops, every
\* role queued for teardown and every user name of the credentials is one of
\* these names, and for database acme and schema billing they are
\* acme_billing_schadm_grp and so on.
C18_NamesDerived ==
    [][ /\ (db'.roles \ db.roles) \cup (db.roles \ db'.roles)
              \subseteq ExpectedNames
        /\ \A n \in 1..Len(dq') : dq'[n] \in ExpectedNames
        /\ ownerRole = ExpectedOwner
        /\ schemaGroups = ExpectedGroups
        /\ tenantUsers' # NoUsers =>
              \A t \in Tiers : tenantUsers'[t].Username = ExpectedUsers[t]
        /\ IsAcmeBilling =>
              /\ schemaGroups = AcmeBillingGroups
              /\ tenantUsers' # NoUsers =>
                    \A t \in Tiers :
                       tenantUsers'[t].Username = AcmeBillingUsers[t]
      ]_vars

\* the second run of the example has created the roles of the example again
C18_Witness ==
    /\ IsAcmeBilling
    /\ pc = "done"
    /\ snap # NoSnap
    /\ {AcmeBillingGroups[t] : t \in Tiers} \subseteq snap.roles
    /\ {AcmeBillingGroups[t] : t \in Tiers} \subseteq db.roles
    /\ {AcmeBillingUsers[t] : t \in Tiers} \subseteq db.roles
    /\ \A t \in Tiers : tenantUsers[t].Username = AcmeBillingUsers[t]

----------------------------------------------------------------------------
(* C19  The names of one tenant key and schema name do not collide.        *)

\* the six names tenantSchemaGroupNames and newTenantSchemaUserCredentials
\* return for the command line
TierNames ==
    {schemaGroups[t] : t \in Tiers}
      \cup {newTenantSchemaUserCredentials(roleNamePrefix, args.schemaName,
                                           nextPw, {})[t].Username : t \in Tiers}

\* C19: for every tenant key and schema name the three group names and the
\* three user names are six pairwise distinct strings, none of them the name of
\* the owner role; so are the group names with the user names of the
\* credentials in hand.
C19_NamesDistinct ==
    /\ Cardinality(TierNames) = 6
    /\ ownerRole \notin TierNames
    /\ tenantUsers # NoUsers =>
          LET inHand == {schemaGroups[t] : t \in Tiers}
                          \cup {tenantUsers[t].Username : t \in Tiers}
          IN /\ Cardinality(inHand) = 6
             /\ ownerRole \notin inHand

\* create-schema has run to its end on a key that ends in the owner's suffix
\* and a schema named like a tier's user suffix: the cluster holds the six
\* roles next to the owner
C19_Witness ==
    /\ pc = "done"
    /\ args.tenantName = "a_owner"
    /\ args.schemaName = "schadm_usr"
    /\ tenantUsers # NoUsers
    /\ TierNames \subseteq db.roles
    /\ ownerRole \in db.roles
    /\ Cardinality(db.roles \ {Operator}) = 7

----------------------------------------------------------------------------
(* C20  Each tier's user is a member of the group of its own tier.         *)

\* C20: the Admin field of the group names holds the _schadm_grp name, the
\* ReadWrite field the _rw_grp name and the ReadOnly field the _ro_grp name,
\* and the user of a tier is made a member of the group of its own tier only:
\* _rw_usr of _rw_grp, _ro_usr of _ro_grp, _schadm_usr of _schadm_grp.
C20_TiersWiredToOwnGroup ==
    /\ schemaGroups.Admin = ExpectedGroups.Admin
    /\ schemaGroups.ReadWrite = ExpectedGroups.ReadWrite
    /\ schemaGroups.ReadOnly = ExpectedGroups.ReadOnly
    /\ \A t \in Tiers :
         \A mb \in db.member :
            mb[2] = ExpectedUsers[t] => mb[1] = ExpectedGroups[t]

----------------------------------------------------------------------------
(* C21  Default privileges on the tables the admin tier creates later.     *)

\* The privileges a table carries when role creator has just created it in
\* the schema: the default privileges recorded for that creator.  ALTER
\* DEFAULT PRIVILEGES without FOR ROLE records them for the current role of
\* the connection that runs it.
NewTableAcl(d, creator) ==
    { [priv |-> g.priv, to |-> g.to] :
        g \in {x \in d.grants : x.on = "default tables" /\ x.by = creator} }

\* the roles of the admin tier that may create a table: the login user, and
\* the group when the user has SET ROLE to it
AdminCreators == {tenantUsers.Admin.Username, schemaGroups.Admin}

\* C21: when create-schema has ended with every statement successful, a table
\* that the admin user or the admin group creates in the schema is readable
\* (SELECT) by the read-only group and SELECT / INSERT / UPDATE / DELETE-able
\* by the read-write group without a further grant.
C21_DefaultPrivilegesForAdminTables ==
    ( /\ pc = "done"
      /\ args.cmd = "create-schema"
      /\ err = NoErr
      /\ tenantUsers # NoUsers
      /\ ~SomeFailed ) =>
        \A creator \in AdminCreators :
           /\ [priv |-> "SELECT", to |-> schemaGroups.ReadOnly]
                 \in NewTableAcl(db, creator)
           /\ \A q \in {"SELECT", "INSERT", "UPDATE", "DELETE"} :
                 [priv |-> q, to |-> schemaGroups.ReadWrite]
                   \in NewTableAcl(db, creator)

----------------------------------------------------------------------------
(* C22  Characters and length of a generated password.                     *)

\* the characters of a string
Chars(str) == {str[n] : n \in 1..Len(str)}

\* the union of the classes the configuration enables
EnabledClasses(config) ==
    (IF config.UseLetters THEN Chars(letters) ELSE {})
      \cup (IF config.UseNum THEN Chars(numbers) ELSE {})
      \cup (IF config.UseSpecial THEN Chars(specialChars) ELSE {})

\* C22: for a configuration that enables at least one class and asks for a
\* length that is not negative, every character written to the password
\* belongs to the union of the enabled classes (digits only when only digits
\* are enabled), and a password returned without error has Length characters,
\* 32 when Length is 0.
C22_CharsetAndLength ==
    ( /\ gen.pc # "none"
      /\ EnabledClasses(gen.config) # {}
      /\ gen.config.Length >= 0 ) =>
        /\ gen.i > 0 => gen.byte \in EnabledClasses(gen.config)
        /\ (gen.pc = "returned" /\ gen.err = NoErr) =>
              gen.i = IF gen.config.Length = 0 THEN 32 ELSE gen.config.Length

----------------------------------------------------------------------------
(* C30  Excluded characters.                                               *)

\* C30: no character listed in ExcludeSpecial is written to the password,
\* also when the exclusion has emptied the character set and letters and
\* digits are taken instead; with the configuration of the orchestrator,
\* PasswordConfig{}, every character is a letter or a digit and a password
\* returned without error has 32 characters.
C30_ExcludedNeverAppear ==
    /\ gen.i > 0 => gen.byte \notin Chars(gen.config.ExcludeSpecial)
    /\ gen.config = PasswordConfig(0, FALSE, FALSE, FALSE, << >>) =>
          /\ gen.i > 0 => gen.byte \in Chars(letters) \cup Chars(numbers)
          /\ (gen.pc = "returned" /\ gen.err = NoErr) => gen.i = 32

----------------------------------------------------------------------------
(* C23  The existence probes.                                              *)

\* the query of the probe that runs in this step fails
ProbeFailed == budget' < budget

\* C23: CheckIfRoleExists and CheckIfDBExists answer true exactly when the
\* query succeeds and finds a row (the teardown goes on to its statements only
\* then); a probe whose query succeeds prints nothing, row or no row; a probe
\* whose query fails prints the error once and returns false, and the run goes
\* on without an error and without exiting.
C23_ExistenceOracle ==
    [][ /\ pc = "drop_probe" =>
              /\ (pc' = "drop_owned") <=> (Head(dq) \in db.roles /\ ~ProbeFailed)
              /\ ~ProbeFailed => stderr' = stderr
              /\ ProbeFailed =>
                    /\ stderr' = Append(stderr, [by |-> "CheckIfRoleExists",
                                                 text |-> Head(dq)])
                    /\ pc' \notin {"exit", "panic"}
                    /\ err' = err
                    /\ db' = db
        /\ pc = "db_probe" =>
              /\ (pc' = "db_alter") <=> (db.dbOwner # NoRole /\ ~ProbeFailed)
              /\ ~ProbeFailed => stderr' = stderr
              /\ ProbeFailed =>
                    /\ stderr' = Append(stderr, [by |-> "CheckIfDBExists",
                                                 text |-> args.dbName])
                    /\ pc' \notin {"exit", "panic"}
                    /\ err' = err
                    /\ db' = db
      ]_vars

\* the query of a probe failed for a database that exists, and the command
\* has run to its end all the same
C23_Witness ==
    /\ pc = "done"
    /\ db.dbOwner # NoRole
    /\ \E n \in 1..Len(stderr) : stderr[n].by = "CheckIfDBExists"
    /\ err = NoErr

----------------------------------------------------------------------------
(* C24  The credentials of an earlier run.                                 *)

\* the user names of the schema of the command line
SchemaUserNames ==
    {newTenantSchemaUserCredentials(roleNamePrefix, args.schemaName,
                                    0, {})[t].Username : t \in Tiers}

\* the login roles of the schema as they were before this run: those of the
\* cluster the process found provisioned, or those the previous run left
LoginsBefore ==
    {l \in Provisioned(roleNamePrefix, args.schemaName).login \cup snap.login :
        l[1] \in SchemaUserNames}

----------------------------------------------------------------------------
(* C25  The order of the steps of NewTenantSchema.                         *)

\* a statement of the set S was handed to RunExec before this step
Earlier(S) == \E n \in 1..Len(execLog) : execLog[n].sql \in S

SchemaStmts ==
    { dropSchema(args.schemaName).sql, createSchema(args.schemaName).sql,
      revokeCreateOnSchema(args.schemaName).sql }

CreateGroups == {createGroup(schemaGroups[t]).sql : t \in Tiers}

CreateUsers(users) == {createUser(users[t]).sql : t \in Tiers}

GrantGroups(users) ==
    {grantGroup(schemaGroups[t], users[t].Username).sql : t \in Tiers}

\* the statements of the teardowns of group and user provisioning
RoleDrops ==
    {dropRole(r).sql : r \in SchemaRoles}
      \cup {dropOwnedByRole(r, Operator).sql : r \in SchemaRoles}

\* the statement that this step hands to RunExec keeps the order
StepOrder ==
    (args.cmd = "create-schema" /\ Len(execLog') = Len(execLog) + 1) =>
      LET sql    == execLog'[Len(execLog')].sql
          wiring == GrantWiring
          grants == wiring \cup GrantGroups(tenantUsers)
          groups == CreateGroups
          users  == CreateUsers(tenantUsers)
          roles  == RoleDrops \cup groups \cup grants \cup users
      IN
      \* the schema closure comes before group provisioning and what follows
      /\ sql \in SchemaStmts => ~Earlier(roles)
      \* the three groups are created before any grant that names a group
      /\ sql \in groups => ~Earlier(grants)
      /\ sql \in grants => \A g \in groups : Earlier({g})
      \* the grant wiring comes before the users
      /\ sql \in wiring => ~Earlier(users)
      /\ sql \in users => \A g \in wiring : Earlier({g})
      \* a user is granted its group after it was created
      /\ \A t \in Tiers :
           sql = grantGroup(schemaGroups[t], tenantUsers[t].Username).sql =>
             Earlier({createUser(tenantUsers[t]).sql})

\* the step hands the credentials out: the emit closure runs
Emits == pc = "emit" /\ pc' # "emit"

\* C25: in every run of create-schema the statements of the schema closure
\* come before those of group provisioning, every CREATE ROLE of a group
\* before every GRANT that names a group, the grant wiring before every CREATE
\* ROLE of a user, each GRANT group TO user after the CREATE ROLE of that user;
\* the credentials are handed out only when the three users have been
\* attempted, and nothing of the command runs after that, so at most once.
C25_StepOrder ==
    [][ /\ StepOrder
        /\ Emits =>
              /\ \A t \in Tiers :
                   /\ Earlier({createUser(tenantUsers[t]).sql})
                   /\ Earlier({grantGroup(schemaGroups[t],
                                          tenantUsers[t].Username).sql})
              /\ pc' = "return"
              /\ execLog' = execLog
        /\ pc \in {"return", "done", "exit"} => pc' \in {"return", "done", "exit"}
      ]_vars

\* create-schema has run to its end and written the credentials, the three
\* groups, the grants, the three users and their memberships done
C25_Witness ==
    /\ pc = "done"
    /\ args.cmd = "create-schema"
    /\ credsFile = << tenantUsers >>
    /\ tenantUsers # NoUsers
    /\ \A sql \in SchemaStmts \cup CreateGroups \cup GrantWiring
                  \cup CreateUsers(tenantUsers) \cup GrantGroups(tenantUsers) :
         Executed(sql)

----------------------------------------------------------------------------
(* C26  The teardown of the database.                                      *)

AlterToOperator ==
    "ALTER DATABASE " \o args.dbName \o " OWNER TO " \o Operator \o ";"

DropForce == "DROP DATABASE IF EXISTS " \o args.dbName \o " WITH (FORCE);"

\* C26: DropDB of a database that exists executes ALTER DATABASE ... OWNER TO
\* the operator role and next DROP DATABASE ... WITH (FORCE); without
\* halt-on-error the drop is executed also when the transfer failed; in
\* NewTenantDB the teardown of the database comes first and the teardown of
\* the owner role follows it.
C26_DropDBOrder ==
    [][ /\ pc = "db_alter" =>
              /\ Len(execLog') = Len(execLog) + 1
              /\ execLog'[Len(execLog')].sql = AlterToOperator
              /\ env.haltOnError = "" => pc' = "db_drop"
              /\ execLog'[Len(execLog')].ok => pc' = "db_drop"
        /\ pc = "db_drop" =>
              /\ Len(execLog') = Len(execLog) + 1
              /\ execLog'[Len(execLog')].sql = DropForce
              /\ execLog[Len(execLog)].sql = AlterToOperator
        /\ pc = "ntd" =>
              /\ execLog = << >>
              /\ pc' = "db_probe"
        /\ (pc \in {"db_probe", "db_drop"} /\ pc' \notin {"db_alter", "exit"}) =>
              /\ pc' = "drop_probe"
              /\ dq' = << ownerRole >>
      ]_vars

\* without halt-on-error the transfer of ownership failed, the drop was
\* executed next, and the command went on
C26_Witness ==
    /\ env.haltOnError = ""
    /\ pc = "done"
    /\ \E n \in 1..(Len(execLog) - 1) :
         /\ execLog[n].sql = AlterToOperator
         /\ ~execLog[n].ok
         /\ execLog[n + 1].sql = DropForce

----------------------------------------------------------------------------
(* C27  No statement is retried.                                           *)

\* this step hands to RunExec a statement that failed earlier in the run
ExecutesFailedAgain ==
    /\ Len(execLog') = Len(execLog) + 1
    /\ \E n \in 1..Len(execLog) :
         /\ execLog[n].sql = execLog'[Len(execLog')].sql
         /\ ~execLog[n].ok

\* C27, as claimed: within one run a statement that failed is never executed
\* again, the teardown of a login user at the start of user provisioning
\* included.
C27_NoStatementExecutedAgain == [][~ExecutesFailedAgain]_vars

\* the statements of DropRole and DropDB
TeardownStmts ==
    {dropRole(r).sql : r \in SchemaUserNames \cup {ownerRole}}
      \cup {dropOwnedByRole(r, Operator).sql : r \in SchemaUserNames \cup {ownerRole}}
      \cup {dropDBAlter(args.dbName, Operator).sql, dropDB(args.dbName).sql}

\* the teardowns that come a second time in a run: of the users at the start
\* of user provisioning, of the database and the owner role in the cleanup of
\* NewTenantDB
LaterTeardown ==
    /\ pc \in {"drop_owned", "drop_role", "db_alter", "db_drop"}
    /\ k \in { << "u_creds" >>, << "return" >>, << "drop_probe", "return" >> }

\* C27, amended: no step executes its statement a second time because it
\* failed: every call of RunExec executes its statement once.  A statement
\* that failed is executed again only by a later call that issues the same
\* text: a later teardown of an object that exists (the teardown of the login
\* users at the start of user provisioning, which repeats the one made during
\* group provisioning, and the cleanup of NewTenantDB), and RESET ROLE when
\* the second scoped connection of NewTenantSchema is closed.
C27_OnlyLaterTeardownRepeats ==
    [][ ExecutesFailedAgain =>
          \/ /\ execLog'[Len(execLog')].sql \in TeardownStmts
             /\ LaterTeardown
          \/ /\ execLog'[Len(execLog')].sql = resetRole.sql
             /\ pc = "s2_close"
      ]_vars

\* the DROP ROLE of a login user failed in both teardowns of a run that went
\* on to its end
C27_Witness ==
    /\ pc = "done"
    /\ \E u \in SchemaUserNames :
         \E m, n \in 1..Len(execLog) :
            /\ m < n
            /\ execLog[m] = [sql |-> dropRole(u).sql, ok |-> FALSE]
            /\ execLog[n] = [sql |-> dropRole(u).sql, ok |-> FALSE]

----------------------------------------------------------------------------
(* C28  The lifetime of the scoped pools of NewTenantSchema.               *)

\* the positions at which statements run on the root pool: the teardowns,
\* group provisioning, the database grant, user provisioning, the emission
RootPoolSteps ==
    { "drop_probe", "drop_owned", "drop_role", "groups", "g_create",
      "grant_db", "users", "u_creds", "u_create", "u_grant", "emit" }

\* C28: at most one scoped pool is open at a time: ConnectDB is called only
\* when none is open; the pool of the schema closure is closed when group
\* provisioning runs its statements on the root pool, and the pool of the
\* grant closure is closed when user provisioning runs its statements.
C28_ScopedPoolsBounded ==
    /\ pc \in {"s1_connect", "s2_connect", "d_connect"} => pool = NoPool
    /\ (args.cmd = "create-schema" /\ pc \in RootPoolSteps) => pool = NoPool

\* both closures have had their connection and user provisioning is at its
\* first CREATE ROLE with no scoped pool open
C28_Witness ==
    /\ pc = "u_create"
    /\ pool = NoPool
    /\ Executed(createSchema(args.schemaName).sql)
    /\ Executed(schemaGrants(args.schemaName, schemaGroups)[10].sql)
    /\ Executed(resetRole.sql)

----------------------------------------------------------------------------
(* C29  The role of the scoped connection.                                 *)

\* the statements NewTenantSchema runs on its scoped connections
ScopedStmts ==
    SchemaStmts
      \cup {schemaGrants(args.schemaName, schemaGroups)[j].sql : j \in 1..10}

\* C29: a schema or grant statement is executed on a scoped connection only
\* when SET ROLE to the requested role has succeeded on it and the role is
\* still set; when SET ROLE fails the connection is not handed out, no
\* statement of the closure is executed, and NewTenantSchema returns an error
\* (or the process has exited in RunExec).
C29_NoStatementUnderWrongRole ==
    [][ Len(execLog') = Len(execLog) + 1 =>
          LET new    == execLog'[Len(execLog')]
              scoped == ScopedStmts
          IN
          /\ (args.cmd = "create-schema" /\ new.sql \in scoped) =>
                /\ connRoleName # ""
                /\ pool = [st |-> "conn", as |-> connRoleName]
                /\ \E m \in 1..Len(execLog) :
                     /\ execLog[m] = [sql |-> setRole(connRoleName).sql,
                                      ok |-> TRUE]
                     /\ \A j \in (m + 1)..Len(execLog) :
                          execLog[j].sql \in scoped
          /\ (new.sql = setRole(connRoleName).sql /\ ~new.ok) =>
                /\ pool'.st # "conn"
                /\ \/ pc' = "exit"
                   \/ pc' = "return" /\ err' # NoErr
      ]_vars

\* SET ROLE failed on the first scoped connection and NewTenantSchema has
\* returned its error with no schema statement executed
C29_Witness ==
    /\ pc = "done"
    /\ args.cmd = "create-schema"
    /\ err = "unable to acquire connection"
    /\ execLog = << [sql |-> setRole(connRoleName).sql, ok |-> FALSE] >>

----------------------------------------------------------------------------
(* C31: whenever NewTenantSchema has written credentials to the credentials *)
(* file, each emitted pair of username and password is one for which a      *)
(* login role with that name and that password exists in the cluster at    *)
(* the end of the run, in best-effort mode as well as with halt-on-error.   *)
C31_EmittedCredentialsMatch ==
    (pc = "done" /\ args.cmd = "create-schema" /\ credsFile # << >>) =>
        \A t \in Tiers :
            <<credsFile[1][t].Username, credsFile[1][t].Password>> \in db.login

----------------------------------------------------------------------------
\* every privilege, on existing objects or by default, that the cluster d
\* records for the role low is recorded for the role high as well
HoldsAtLeast(d, high, low) ==
    \A g \in d.grants : g.to = low => [g EXCEPT !.to = high] \in d.grants

(* C32: at the end of every run of create-schema that returns without      *)
(* error, in best-effort mode and with any subset of the grant statements  *)
(* failing (and nothing else), every privilege held by the read-only group *)
(* is also held by the read-write group.                                   *)
C32_ReadWriteHoldsReadOnly ==
    ( /\ pc = "done"
      /\ args.cmd = "create-schema"
      /\ env.haltOnError = ""
      /\ err = NoErr
      /\ OnlyGrantsFailed ) =>
        HoldsAtLeast(db, schemaGroups.ReadWrite, schemaGroups.ReadOnly)

----------------------------------------------------------------------------
(* C33: NewTenantSchema with an empty database name returns a non-nil      *)
(* error and has no effect: its one step goes to the return with err set,  *)
(* opens no scoped pool, executes no statement, drops and creates no role  *)
(* and writes nothing to the audit file or the credentials file.           *)
C33_EmptyDBNameNoEffect ==
    [][ (pc = "nts" /\ args.dbName = "") =>
          /\ pc' = "return"
          /\ err' # NoErr
          /\ pool = NoPool /\ pool' = NoPool
          /\ execLog = << >> /\ execLog' = << >>
          /\ tenantUsers' = NoUsers
          /\ UNCHANGED <<db, audit, credsFile, stderr, halted>> ]_vars

\* the command has ended with the error and nothing was executed
C33_Witness ==
    /\ pc = "done"
    /\ args.cmd = "create-schema"
    /\ args.dbName = ""
    /\ err = "missing database name"
    /\ execLog = << >>
    /\ credsFile = << >>
    /\ pool = NoPool

----------------------------------------------------------------------------
(* C34: the audit file is truncated only at the start of the process: no   *)
(* step, a call of Connect made after statements were executed included,   *)
(* removes a statement that was appended to the file, so the statements in *)
(* the file only ever grow at the end.                                     *)
C34_TruncatedOnlyAtStart ==
    [][ LET before == SelectSeq(audit, LAMBDA l : l.kind = "sql")
            after  == SelectSeq(audit', LAMBDA l : l.kind = "sql")
        IN /\ Len(after) >= Len(before)
           /\ SubSeq(after, 1, Len(before)) = before ]_vars

----------------------------------------------------------------------------
\* the provisioning targets of the command lines: tenant key and schema name
Targets ==
    { <<IF n[3] = "" THEN n[1] ELSE n[3], n[2]>> : n \in NameInputs }

\* the group and user role names derived for a target
TargetNames(key, schemaName) ==
    {tenantSchemaGroupNames(key, schemaName)[t] : t \in Tiers}
      \cup {newTenantSchemaUserCredentials(key, schemaName, 0, {})[t].Username :
              t \in Tiers}

(* C35: for any two distinct pairs of tenant key and schema name the sets  *)
(* of derived group and user role names are disjoint: the group and user   *)
(* names a run of create-schema has derived and created are the names of   *)
(* no other target, be it another schema of the key or another key.        *)
C35_NoCollisionAcrossTargets ==
    (pc = "done" /\ args.cmd = "create-schema" /\ tenantUsers # NoUsers) =>
        LET mine == {schemaGroups[t] : t \in Tiers}
                      \cup {tenantUsers[t].Username : t \in Tiers}
        IN \A x \in Targets :
              x # <<roleNamePrefix, args.schemaName>> =>
                  TargetNames(x[1], x[2]) \cap mine = {}

----------------------------------------------------------------------------
\* the credentials the process wrote last are those of login roles
FileMatchesCluster ==
    /\ credsFile # << >>
    /\ \A t \in Tiers :
         <<credsFile[1][t].Username, credsFile[1][t].Password>> \in db.login

\* both processes ran their command to its end and returned nil
BothReturnedNil ==
    /\ pc = "done" /\ err = NoErr
    /\ other.pc = "done" /\ other.err = NoErr

(* C36: nothing excludes one run from another.  Two runs of create-schema  *)
(* for the same key, database and schema that are serialized (the second   *)
(* begins its command when the first has ended) end, when no statement of  *)
(* the second failed, with the credentials file holding the passwords the  *)
(* login roles have; two runs that are not serialized interleave their     *)
(* teardown and creation of the login users and can end in a state neither *)
(* serial order gives (the witness).                                       *)
C36_SerialRunsAgree ==
    ( /\ BothReturnedNil
      /\ ~raced
      /\ \A n \in 1..Len(execLog) : execLog[n].ok ) =>
        /\ FileMatchesCluster
        /\ credsFile[1] = tenantUsers
        /\ \A t \in Tiers : other.tenantUsers[t] # tenantUsers[t]

\* two overlapping runs have both returned nil, every statement of the one
\* that wrote the file last succeeded, one login role has the password this
\* run generated and another the password the other run generated, and the
\* file holds a password that no login role has
C36_Witness ==
    /\ BothReturnedNil
    /\ raced
    /\ \A n \in 1..Len(execLog) : execLog[n].ok
    /\ credsFile = << tenantUsers >>
    /\ ~FileMatchesCluster
    /\ \E t, u \in Tiers :
         /\ <<tenantUsers[t].Username, tenantUsers[t].Password>> \in db.login
         /\ <<other.tenantUsers[u].Username, other.tenantUsers[u].Password>>
               \in db.login
         /\ other.tenantUsers[u].Password # tenantUsers[u].Password

====
